---- MODULE Spec2Model ----
(***************************************************************************)
(* A model of the F5 ASM integration (Packs/F5/Integrations/f5_v2).       *)
(* One behaviour is one host invocation of main(): the login call, the    *)
(* dispatch of one command, the resolver lookups and the primary request  *)
(* of the operation, the formatter and the report handed to the platform. *)
(* The server's answers are the environment: every HTTP exchange draws    *)
(* its response from a small set.                                         *)
(*                                                                         *)
(* Python values are tagged records, so that None, strings, dicts and     *)
(* lists can be told apart; a str is a sequence of one-character strings, *)
(* a dict is a function from its present keys to values.                  *)
(***************************************************************************)
EXTENDS Integers, Sequences, FiniteSets, TLC

(***************************************************************************)
(* Bounds of the model.                                                    *)
(***************************************************************************)
\* longest `items` list a lookup response carries
MaxItems == 2
\* most optional arguments a call supplies, unless it supplies them all
MaxOptionalArgs == 1
\* most arguments a call passes as null
MaxNullArgs == 1

(***************************************************************************)
(* Python values.                                                          *)
(***************************************************************************)
None == [t |-> "none"]
Str(s) == [t |-> "str", v |-> s]
Bool(b) == [t |-> "bool", v |-> b]
IntV(n) == [t |-> "int", v |-> n]
List(q) == [t |-> "list", v |-> q]
Dict(f) == [t |-> "dict", v |-> f]
EmptyDict == Dict(<<>>)

IsDict(x) == x.t = "dict"
IsList(x) == x.t = "list"

\* dict.get(key): the value, or None when the key is absent
Get(d, k) == IF k \in DOMAIN d.v THEN d.v[k] ELSE None

\* the outcome of a call: a returned value or a raised exception
Ok(x) == [ok |-> TRUE, val |-> x]
Raise(e) == [ok |-> FALSE, exc |-> e]

(***************************************************************************)
(* String literals of the source, as character sequences.                  *)
(***************************************************************************)
PoliciesSlash == <<"p", "o", "l", "i", "c", "i", "e", "s", "/">>
Slash == <<"/">>
AsmPolicies == <<"a", "s", "m", "/", "p", "o", "l", "i", "c", "i", "e", "s">>
AsmApplyPolicy == <<"a", "s", "m", "/", "t", "a", "s", "k", "s", "/", "a", "p", "p", "l", "y", "-", "p", "o", "l", "i", "c", "y">>
AsmExportPolicy == <<"a", "s", "m", "/", "t", "a", "s", "k", "s", "/", "e", "x", "p", "o", "r", "t", "-", "p", "o", "l", "i", "c", "y">>
SysVersion == <<"s", "y", "s", "/", "v", "e", "r", "s", "i", "o", "n">>
Methods == <<"m", "e", "t", "h", "o", "d", "s">>
Filetypes == <<"f", "i", "l", "e", "t", "y", "p", "e", "s">>
HostNames == <<"h", "o", "s", "t", "-", "n", "a", "m", "e", "s">>
BlockingSettings == <<"b", "l", "o", "c", "k", "i", "n", "g", "-", "s", "e", "t", "t", "i", "n", "g", "s">>
Urls == <<"u", "r", "l", "s">>
Cookies == <<"c", "o", "o", "k", "i", "e", "s">>
PolicyCookies == <<"p", "o", "l", "i", "c", "y", "-", "c", "o", "o", "k", "i", "e", "s">>
WhitelistIps == <<"w", "h", "i", "t", "e", "l", "i", "s", "t", "-", "i", "p", "s">>
NoneText == <<"N", "o", "n", "e">>

\* what an f-string renders for a value: str(None) is 'None'
FStr(x) == IF x = None THEN NoneText ELSE x.v

(***************************************************************************)
(* str.partition and str.upper.                                            *)
(***************************************************************************)
OccursAt(s, sep, i) ==
    /\ i + Len(sep) - 1 <= Len(s)
    /\ \A j \in 1..Len(sep) : s[i + j - 1] = sep[j]

Occurrences(s, sep) == {i \in 1..Len(s) : OccursAt(s, sep, i)}

\* a mutant of Partition: splits at the last occurrence (rpartition)
PartitionAtLast(s, sep) ==
    LET occ == Occurrences(s, sep)
        i == CHOOSE k \in occ : \A m \in occ : m <= k
    IN IF occ = {} THEN <<s, <<>>, <<>>>>
       ELSE <<SubSeq(s, 1, i - 1), sep, SubSeq(s, i + Len(sep), Len(s))>>

\* s.partition(sep): (before, sep, after) around the first occurrence of
\* sep, or (s, '', '') when sep does not occur
Partition(s, sep) ==
    LET occ == Occurrences(s, sep)
        i == CHOOSE k \in occ : \A m \in occ : k <= m
    IN IF occ = {} THEN <<s, <<>>, <<>>>>
       ELSE <<SubSeq(s, 1, i - 1), sep, SubSeq(s, i + Len(sep), Len(s))>>

UpperChar(c) ==
    CASE c = "g" -> "G" [] c = "e" -> "E" [] c = "t" -> "T"
      [] c = "p" -> "P" [] c = "o" -> "O" [] c = "s" -> "S"
      [] OTHER -> c

Upper(s) == [i \in DOMAIN s |-> UpperChar(s[i])]

(***************************************************************************)
(* The resolvers' scan: `for element in items: if element.get(field) ==   *)
(* key: index = items.index(element)`.  Indices are Python's (0-based);   *)
(* list.index gives the first position holding an equal element.          *)
(***************************************************************************)
ListIndex(items, element) ==
    (CHOOSE j \in 1..Len(items) :
        /\ items[j] = element
        /\ \A m \in 1..(j - 1) : items[m] # element) - 1

\* a mutant of Scan: the loop stops at the first match
RECURSIVE ScanFirstMatch(_, _, _, _, _)
ScanFirstMatch(items, field, key, i, index) ==
    IF i > Len(items) THEN index
    ELSE ScanFirstMatch(items, field, key, i + 1,
              IF Get(items[i], field) = key /\ index = -1
              THEN ListIndex(items, items[i]) ELSE index)

RECURSIVE Scan(_, _, _, _, _)
Scan(items, field, key, i, index) ==
    IF i > Len(items) THEN index
    ELSE Scan(items, field, key, i + 1,
              IF Get(items[i], field) = key
              THEN ListIndex(items, items[i]) ELSE index)

\* items[index] with Python's indexing: -1 is the last element
PyItem(items, index) == IF index < 0 THEN items[Len(items) + index + 1]
                        ELSE items[index + 1]

\* Client.get_policy_md5, given the response of its GET asm/policies
get_policy_md5(policy_name, response) ==
    IF ~IsDict(response) THEN Raise("AttributeError")
    ELSE LET items == Get(response, "items") IN
    IF ~IsList(items) THEN Raise("TypeError")
    ELSE LET index == Scan(items.v, "name", policy_name, 1, -1) IN
    \* line 45 runs before the index == -1 test of line 46
    IF Len(items.v) = 0 THEN Raise("IndexError")
    ELSE LET ref == Get(PyItem(items.v, index), "plainTextProfileReference") IN
    IF ~IsDict(ref) THEN Raise("AttributeError")
    ELSE LET link == Get(ref, "link") IN
    IF index = -1 THEN Ok(policy_name)
    ELSE IF link = None THEN Raise("AttributeError")
    ELSE Ok(Str(Partition(Partition(link.v, PoliciesSlash)[3], Slash)[1]))

\* a mutant of ResolveId: a miss yields None instead of the key
ResolveIdOrNone(field, key, response) ==
    IF ~IsDict(response) THEN Raise("AttributeError")
    ELSE LET items == Get(response, "items") IN
    IF ~IsList(items) THEN Raise("TypeError")
    ELSE LET index == Scan(items.v, field, key, 1, -1) IN
    IF index = -1 THEN Ok(None)
    ELSE Ok(Get(PyItem(items.v, index), "id"))

\* the scan of get_id, get_blocking_settings_id and get_ip_id, which differ
\* in the field they match; given the response of the collection's GET
ResolveId(field, key, response) ==
    IF ~IsDict(response) THEN Raise("AttributeError")
    ELSE LET items == Get(response, "items") IN
    IF ~IsList(items) THEN Raise("TypeError")
    ELSE LET index == Scan(items.v, field, key, 1, -1) IN
    IF index = -1 THEN Ok(key)
    ELSE Ok(Get(PyItem(items.v, index), "id"))

\* a mutant of get_id: a name the listing does not hold is an error
get_id_or_fail(method_name, response) ==
    LET r == ResolveId("name", method_name, response) IN
    IF r.ok /\ r.val = method_name THEN Raise("NotFound") ELSE r

get_id(method_name, response) == ResolveId("name", method_name, response)

get_blocking_settings_id(description, response) ==
    ResolveId("description", description, response)

get_ip_id(ip_address, response) == ResolveId("ipAddress", ip_address, response)


(***************************************************************************)
(* Values the environment supplies: names, ids, links.                     *)
(***************************************************************************)
\* the policy name the caller passes, and another policy's name
P1 == <<"p", "1">>
P2 == <<"p", "2">>
\* policy ids as they appear in reference links
IdA == <<"A", "1">>
IdB == <<"B", "2">>
\* .../policies/<ID>/... links; LinkB holds `policies/` twice
LinkA == <<"h", "/">> \o PoliciesSlash \o IdA \o Slash \o <<"x">>
LinkB == <<"h", "/">> \o PoliciesSlash \o IdB \o Slash \o PoliciesSlash \o IdA \o Slash
Links == {LinkA, LinkB}
\* natural keys of sub-resources (a name, a description, an IP address)
K1 == <<"k", "1">>
K2 == <<"k", "2">>
\* server-assigned ids of sub-resources
I1 == <<"7">>
I2 == <<"8">>
\* a blocking-settings endpoint
Evasions == <<"e", "v", "a", "s", "i", "o", "n", "s">>
\* an HTTP method name as the caller types it
GetLower == <<"g", "e", "t">>

\* the sequences over S of length at most n
SeqsUpTo(S, n) == UNION {[1..k -> S] : k \in 0..n}

\* items of a GET asm/policies listing
PolicyItems ==
    {Dict([name |-> Str(n)]) : n \in {P1, P2}}
    \cup {Dict([name |-> Str(P1),
                plainTextProfileReference |-> Dict([link |-> Str(l)])]) : l \in Links}
    \cup {Dict([name |-> Str(P2),
                plainTextProfileReference |-> Dict([link |-> Str(LinkA)])])}

\* items of a sub-resource listing, keyed by the field the resolver matches
SubItems(field) ==
    {Dict((field :> Str(K1)) @@ [id |-> Str(i)]) : i \in {I1, I2}}
    \cup {Dict((field :> Str(K2)) @@ [id |-> Str(I1)])}

\* what _http_request raises on a network error or a non-2xx status
TransportErrors == {"Error in API call [404]", "Connection Error"}

\* the outcomes of a lookup's GET: a listing, an object without `items`,
\* or a transport error
ListingOutcomes(itemSet) ==
    {Ok(Dict([items |-> List(q)])) : q \in SeqsUpTo(itemSet, MaxItems)}
    \cup {Ok(EmptyDict)}
    \cup {Raise(e) : e \in TransportErrors}

(***************************************************************************)
(* The operations of Client: for each command of main's table, the        *)
(* signature of its method, the lookups it makes, and the HTTP method,    *)
(* the path shape and the formatter of its primary call.                   *)
(*   required / defaults : the method's parameters                         *)
(*   resolve  : it calls get_policy_md5(policy_name)                       *)
(*   sub      : the sub-resource resolver it calls, or "none"              *)
(*   key      : the parameter holding the sub-resource's natural key       *)
(*   action   : the collection get_id is told to list                      *)
(*   coll     : the collection of the primary call                         *)
(*   shape    : how the primary call's url_suffix is built                 *)
(***************************************************************************)
NoDefaults == <<>>
NoneDefaults(S) == [k \in S |-> None]

\* a mutant of Op: every primary call is a GET
OpAlwaysGet(required, defaults, resolve, sub, key, action, method, coll, shape, fmt) ==
    [required |-> required, defaults |-> defaults, resolve |-> resolve,
     sub |-> sub, key |-> key, action |-> action, method |-> "GET",
     coll |-> coll, shape |-> shape, fmt |-> fmt]

\* a mutant of Op: every command is mapped to an operation on the methods
\* collection
OpOnMethods(required, defaults, resolve, sub, key, action, method, coll, shape, fmt) ==
    [required |-> required, defaults |-> defaults, resolve |-> resolve,
     sub |-> sub, key |-> key, action |-> action, method |-> method,
     coll |-> Methods, shape |-> shape, fmt |-> fmt]

Op(required, defaults, resolve, sub, key, action, method, coll, shape, fmt) ==
    [required |-> required, defaults |-> defaults, resolve |-> resolve,
     sub |-> sub, key |-> key, action |-> action, method |-> method,
     coll |-> coll, shape |-> shape, fmt |-> fmt]

FileTypeFields == {"query_string_length", "check_post_data_length", "response_check",
                   "check_request_length", "post_data_length", "perform_staging"}
UrlUpdateFields == {"perform_staging", "description", "mandatory_body",
                    "clickjacking_protection", "url_isreferrer"}
IpUpdateFields == {"trusted_by_builder", "ignore_brute_detection", "description",
                   "block_requests", "ignore_learning", "never_log",
                   "ignore_intelligence"}

commands ==
    [c \in {} |-> 0]
    @@ "f5-asm-policy-list" :>
        Op({}, [self_link |-> Str(<<>>), kind |-> Str(<<>>), items |-> None],
           FALSE, "none", "", <<>>, "GET", <<>>, "policies", "format_list_policies")
    @@ "f5-asm-policy-apply" :>
        Op({"policy_reference_link"}, NoDefaults,
           FALSE, "none", "", <<>>, "POST", <<>>, "apply", "format_apply_policy")
    @@ "f5-asm-policy-export-file" :>
        Op({"filename", "minimal", "policy_reference_link"}, NoDefaults,
           FALSE, "none", "", <<>>, "POST", <<>>, "export", "format_export_policy")
    @@ "f5-asm-policy-delete" :>
        Op({"policy_name"}, NoDefaults,
           TRUE, "none", "", <<>>, "DELETE", <<>>, "policy", "format_delete_policy")
    @@ "f5-asm-policy-methods-list" :>
        Op({"policy_name"}, NoDefaults,
           TRUE, "none", "", <<>>, "GET", Methods, "coll", "format_list_policy_methods")
    @@ "f5-asm-policy-methods-add" :>
        Op({"policy_name", "new_method_name", "act_as_method"}, NoDefaults,
           TRUE, "none", "", <<>>, "POST", Methods, "coll",
           "format_policy_methods_command")
    @@ "f5-asm-policy-methods-update" :>
        Op({"policy_name", "method_name", "act_as_method"}, NoDefaults,
           TRUE, "get_id", "method_name", Methods, "PATCH", Methods, "item",
           "format_policy_methods_command")
    @@ "f5-asm-policy-methods-delete" :>
        Op({"policy_name", "method_name"}, NoDefaults,
           TRUE, "get_id", "method_name", Methods, "DELETE", Methods, "item",
           "format_policy_methods_command")
    @@ "f5-asm-policy-file-type-list" :>
        Op({"policy_name"}, NoDefaults,
           TRUE, "none", "", <<>>, "GET", Filetypes, "coll",
           "format_list_policy_file_type")
    @@ "f5-asm-policy-file-type-add" :>
        Op({"policy_name", "new_file_type"} \cup FileTypeFields, NoDefaults,
           TRUE, "none", "", <<>>, "POST", Filetypes, "coll",
           "format_file_type_command")
    @@ "f5-asm-policy-file-type-update" :>
        Op({"policy_name", "file_type_name"} \cup FileTypeFields, NoDefaults,
           TRUE, "get_id", "file_type_name", Filetypes, "PATCH", Filetypes, "item",
           "format_file_type_command")
    @@ "f5-asm-policy-file-type-delete" :>
        Op({"policy_name", "file_type_name"}, NoDefaults,
           TRUE, "get_id", "file_type_name", Filetypes, "DELETE", Filetypes, "item",
           "format_file_type_command")
    @@ "f5-asm-policy-cookies-list" :>
        Op({"policy_name"}, NoDefaults,
           TRUE, "none", "", <<>>, "GET", Cookies, "coll", "format_list_cookies")
    @@ "f5-asm-policy-cookies-add" :>
        Op({"policy_name", "new_cookie_name", "perform_staging"}, NoDefaults,
           TRUE, "none", "", <<>>, "POST", Cookies, "coll", "format_cookies_command")
    @@ "f5-asm-policy-cookies-update" :>
        Op({"policy_name", "cookie_name", "perform_staging"}, NoDefaults,
           TRUE, "get_id", "cookie_name", PolicyCookies, "PATCH", Cookies, "item",
           "format_cookies_command")
    @@ "f5-asm-policy-cookies-delete" :>
        Op({"policy_name", "cookie_name"}, NoDefaults,
           TRUE, "get_id", "cookie_name", Cookies, "DELETE", Cookies, "item",
           "format_cookies_command")
    @@ "f5-asm-policy-hostnames-list" :>
        Op({"policy_name"}, NoDefaults,
           TRUE, "none", "", <<>>, "GET", HostNames, "coll",
           "format_policy_hostnames_command")
    @@ "f5-asm-policy-hostnames-add" :>
        Op({"policy_name", "name", "include_subdomains"}, NoDefaults,
           TRUE, "none", "", <<>>, "POST", HostNames, "coll",
           "format_policy_hostname_command")
    @@ "f5-asm-policy-hostnames-update" :>
        Op({"policy_name", "name", "include_subdomains"}, NoDefaults,
           TRUE, "get_id", "name", HostNames, "PATCH", HostNames, "item",
           "format_policy_hostname_command")
    @@ "f5-asm-policy-hostnames-delete" :>
        Op({"policy_name", "name"}, NoDefaults,
           TRUE, "get_id", "name", HostNames, "DELETE", HostNames, "item",
           "format_policy_hostname_command")
    @@ "f5-asm-policy-blocking-settings-list" :>
        Op({"policy_name", "endpoint"}, NoDefaults,
           TRUE, "none", "", <<>>, "GET", BlockingSettings, "bs",
           "format_policy_blocking_settings_list_command")
    @@ "f5-asm-policy-blocking-settings-update" :>
        Op({"policy_name", "endpoint", "description"},
           [enabled |-> None, learn |-> Bool(TRUE), alarm |-> None, block |-> None],
           TRUE, "get_blocking_settings_id", "description", BlockingSettings,
           "PATCH", BlockingSettings, "bs_item",
           "format_policy_blocking_settings_single_command")
    @@ "f5-asm-policy-urls-list" :>
        Op({"policy_name"}, NoDefaults,
           TRUE, "none", "", <<>>, "GET", Urls, "coll",
           "format_list_policy_urls_command")
    @@ "f5-asm-policy-urls-add" :>
        Op({"policy_name", "name", "method", "protocol", "url_type"},
           [description |-> Str(<<>>), is_allowed |-> Bool(TRUE)],
           TRUE, "none", "", <<>>, "POST", Urls, "coll", "format_policy_url_command")
    @@ "f5-asm-policy-urls-update" :>
        Op({"policy_name", "name"}, NoneDefaults(UrlUpdateFields),
           TRUE, "get_id", "name", Urls, "PATCH", Urls, "item",
           "format_policy_url_command")
    @@ "f5-asm-policy-urls-delete" :>
        Op({"policy_name", "name"}, NoDefaults,
           TRUE, "get_id", "name", Urls, "DELETE", Urls, "item",
           "format_policy_url_command")
    @@ "f5-asm-policy-whitelist-ips-list" :>
        Op({"policy_name"}, NoDefaults,
           TRUE, "none", "", <<>>, "GET", WhitelistIps, "coll",
           "format_policy_whitelist_ips_command")
    @@ "f5-asm-policy-whitelist-ips-add" :>
        Op({"policy_name", "ip_address"}, NoneDefaults({"ip_mask"} \cup IpUpdateFields),
           TRUE, "none", "", <<>>, "POST", WhitelistIps, "coll_slash",
           "format_policy_whitelist_ip_command")
    @@ "f5-asm-policy-whitelist-ips-update" :>
        Op({"policy_name", "ip_address"}, NoneDefaults(IpUpdateFields),
           TRUE, "get_ip_id", "ip_address", WhitelistIps, "PATCH", WhitelistIps,
           "item", "format_policy_whitelist_ip_command")
    @@ "f5-asm-policy-whitelist-ips-delete" :>
        Op({"policy_name", "ip_address"}, NoDefaults,
           TRUE, "get_ip_id", "ip_address", WhitelistIps, "DELETE", WhitelistIps,
           "item", "format_policy_whitelist_ip_command")

Params(cmd) == commands[cmd].required \cup DOMAIN commands[cmd].defaults

\* the call commands[command](**args): Python binds the keyword arguments to
\* the parameters, and raises TypeError for a missing or an unexpected one
Bind(cmd, kwargs) ==
    IF \/ ~(commands[cmd].required \subseteq DOMAIN kwargs)
       \/ ~(DOMAIN kwargs \subseteq Params(cmd))
    THEN Raise("TypeError")
    ELSE Ok([k \in Params(cmd) |->
                IF k \in DOMAIN kwargs THEN kwargs[k] ELSE commands[cmd].defaults[k]])

(***************************************************************************)
(* The request each operation builds.                                      *)
(***************************************************************************)
\* an argument _http_request is not given
NoArg == [t |-> "absent"]

\* a mutant of FilterNone: the loop's `is not None` test is gone
KeepAll(f) == f

\* `for pair in json_body_start.items(): if pair[1] is not None:
\*      json_body.update({pair[0]: pair[1]})`
FilterNone(f) == [k \in {j \in DOMAIN f : f[j] # None} |-> f[k]]

\* act_as_method.upper(): None has no upper()
UpperOf(x) == IF x.t = "str" THEN Ok(Str(Upper(x.v))) ELSE Raise("AttributeError")

\* a mutant of MethodBody: actAsMethod is sent as the caller typed it
MethodBodyAsTyped(name, act_as_method) ==
    Ok(Dict([name |-> name, actAsMethod |-> act_as_method]))

MethodBody(name, act_as_method) ==
    LET u == UpperOf(act_as_method) IN
    IF u.ok THEN Ok(Dict([name |-> name, actAsMethod |-> u.val])) ELSE u

FileTypeBody(name, p) ==
    Ok(Dict([name |-> name,
             queryStringLength |-> p.query_string_length,
             checkPostDataLength |-> p.check_post_data_length,
             responseCheck |-> p.response_check,
             checkRequestLength |-> p.check_request_length,
             postDataLength |-> p.post_data_length,
             performStaging |-> p.perform_staging]))

\* a mutant of IpAddBody: every field is sent, as the other add operations do
IpAddBodyUnfiltered(p) ==
    Ok(Dict([ipAddress |-> p.ip_address, ipMask |-> p.ip_mask,
             ignoreIpReputation |-> p.ignore_intelligence,
             blockRequests |-> p.block_requests,
             ignoreAnomalies |-> p.ignore_brute_detection,
             description |-> p.description,
             neverLearnRequests |-> p.ignore_learning,
             neverLogRequests |-> p.never_log,
             trustedByPolicyBuilder |-> p.trusted_by_builder]))

\* the body of f5_add_policy_whitelist_ips_command
IpAddBody(p) ==
    Ok(Dict(FilterNone([ipAddress |-> p.ip_address, ipMask |-> p.ip_mask,
                        ignoreIpReputation |-> p.ignore_intelligence,
                        blockRequests |-> p.block_requests,
                        ignoreAnomalies |-> p.ignore_brute_detection,
                        description |-> p.description,
                        neverLearnRequests |-> p.ignore_learning,
                        neverLogRequests |-> p.never_log,
                        trustedByPolicyBuilder |-> p.trusted_by_builder])))

\* the json_data of the operation's primary call: a dict, NoArg when the call
\* passes none, or the exception raised while the body is built
json_data(cmd, p) ==
    CASE cmd = "f5-asm-policy-list" -> Ok(NoArg)
      [] cmd = "f5-asm-policy-apply" ->
            Ok(Dict([policyReference |-> Dict([link |-> p.policy_reference_link])]))
      [] cmd = "f5-asm-policy-export-file" ->
            Ok(Dict([filename |-> p.filename, minimal |-> p.minimal,
                     policyReference |-> Dict([link |-> p.policy_reference_link])]))
      [] cmd = "f5-asm-policy-methods-add" ->
            MethodBody(p.new_method_name, p.act_as_method)
      [] cmd = "f5-asm-policy-methods-update" ->
            MethodBody(p.method_name, p.act_as_method)
      [] cmd = "f5-asm-policy-file-type-add" -> FileTypeBody(p.new_file_type, p)
      [] cmd = "f5-asm-policy-file-type-update" -> FileTypeBody(p.file_type_name, p)
      [] cmd = "f5-asm-policy-cookies-add" ->
            Ok(Dict([name |-> p.new_cookie_name, performStaging |-> p.perform_staging]))
      [] cmd = "f5-asm-policy-cookies-update" ->
            Ok(Dict([name |-> p.cookie_name, performStaging |-> p.perform_staging]))
      [] cmd = "f5-asm-policy-hostnames-add" ->
            Ok(Dict([name |-> p.name, includeSubdomains |-> p.include_subdomains]))
      [] cmd = "f5-asm-policy-hostnames-update" ->
            Ok(Dict([includeSubdomains |-> p.include_subdomains]))
      [] cmd \in {"f5-asm-policy-hostnames-delete",
                  "f5-asm-policy-blocking-settings-list"} -> Ok(NoArg)
      [] cmd = "f5-asm-policy-blocking-settings-update" ->
            Ok(Dict(FilterNone([enabled |-> p.enabled, learn |-> p.learn,
                                alarm |-> p.alarm, block |-> p.block])))
      [] cmd = "f5-asm-policy-urls-add" ->
            Ok(Dict([name |-> p.name, protocol |-> p.protocol,
                     description |-> p.description, method |-> p.method,
                     type |-> p.url_type, isAllowed |-> p.is_allowed]))
      [] cmd = "f5-asm-policy-urls-update" ->
            Ok(Dict(FilterNone([performStaging |-> p.perform_staging,
                                description |-> p.description,
                                mandatoryBody |-> p.mandatory_body,
                                clickjackingProtection |-> p.clickjacking_protection,
                                urlIsReferrer |-> p.url_isreferrer])))
      [] cmd = "f5-asm-policy-whitelist-ips-add" -> IpAddBody(p)
      [] cmd = "f5-asm-policy-whitelist-ips-update" ->
            Ok(Dict(FilterNone([ignoreIpReputation |-> p.ignore_intelligence,
                                blockRequests |-> p.block_requests,
                                ignoreAnomalies |-> p.ignore_brute_detection,
                                description |-> p.description,
                                neverLearnRequests |-> p.ignore_learning,
                                neverLogRequests |-> p.never_log,
                                trustedByPolicyBuilder |-> p.trusted_by_builder])))
      \* the remaining list and delete operations pass json_data={}
      [] OTHER -> Ok(EmptyDict)

\* the params of the primary call (f5_list_policies_command only)
params(cmd, p) ==
    IF cmd = "f5-asm-policy-list"
    THEN Dict([selfLink |-> p.self_link, kind |-> p.kind,
               items |-> IF p.items = None THEN List(<<>>) ELSE p.items])
    ELSE NoArg

\* asm/policies/{md5}/{coll}
CollPath(md5, coll) == AsmPolicies \o Slash \o FStr(md5) \o Slash \o coll

\* the url_suffix of the operation's primary call
url_suffix(cmd, p, md5, sub_id) ==
    LET op == commands[cmd] IN
    CASE op.shape = "policies" -> AsmPolicies
      [] op.shape = "apply" -> AsmApplyPolicy
      [] op.shape = "export" -> AsmExportPolicy
      [] op.shape = "policy" -> AsmPolicies \o Slash \o FStr(md5)
      [] op.shape = "coll" -> CollPath(md5, op.coll)
      [] op.shape = "coll_slash" -> CollPath(md5, op.coll) \o Slash
      [] op.shape = "item" -> CollPath(md5, op.coll) \o Slash \o FStr(sub_id)
      [] op.shape = "bs" -> CollPath(md5, op.coll) \o Slash \o FStr(p.endpoint)
      [] op.shape = "bs_item" ->
            CollPath(md5, op.coll) \o Slash \o FStr(p.endpoint) \o Slash \o FStr(sub_id)

\* a mutant of lookup_suffix: the policy's name stands where its id belongs
lookup_suffix_by_name(cmd, p, md5) ==
    LET op == commands[cmd] IN
    IF op.sub = "get_blocking_settings_id"
    THEN CollPath(p.policy_name, op.action) \o Slash \o FStr(p.endpoint)
    ELSE CollPath(p.policy_name, op.action)

\* the url_suffix of the sub-resource resolver's GET
lookup_suffix(cmd, p, md5) ==
    LET op == commands[cmd] IN
    IF op.sub = "get_blocking_settings_id"
    THEN CollPath(md5, op.action) \o Slash \o FStr(p.endpoint)
    ELSE CollPath(md5, op.action)

\* the field the sub-resource resolver matches
MatchField(sub) ==
    CASE sub = "get_id" -> "name"
      [] sub = "get_blocking_settings_id" -> "description"
      [] sub = "get_ip_id" -> "ipAddress"

(***************************************************************************)
(* The formatters.  Each maps the primary call's response to the triple   *)
(* (readable_output, outputs, result).  The table holds what tells them   *)
(* apart:                                                                  *)
(*   guard  : the function opens with `if not result: return <nodata>`    *)
(*   mode   : "single" formats the response object itself; "rebind" does  *)
(*            `result = result.get('items')` and formats each item;       *)
(*            "entries" does `entries = result.get('items')` and does so  *)
(*   fields : display name -> the response key it is read from            *)
(*   date   : the display name given format_date(lastUpdateMicros)        *)
(***************************************************************************)
formatters ==
    [c \in {} |-> 0]
    @@ "format_list_policies" :>
        [guard |-> TRUE, mode |-> "rebind", nodata |-> "No data to show.",
         key |-> "f5.ListPolicies(val.uid && val.uid == obj.uid)",
         title |-> "f5 data for listing policies:", date |-> "",
         fields |-> ("name" :> "name" @@ "id" :> "id" @@ "type" :> "type" @@
             "creator-name" :> "creatorName" @@ "created-time" :> "createdDatetime" @@
             "enforcement-mode" :> "enforcementMode" @@ "active" :> "active"),
         headers |-> <<"name", "id", "type", "enforcement-mode", "creator-name",
             "active", "created-time">>]
    @@ "format_apply_policy" :>
        [guard |-> TRUE, mode |-> "single", nodata |-> "No data to show.",
         key |-> "f5.ApplyPolicy(val.uid && val.uid == obj.uid)",
         title |-> "f5 data for applying policy:", date |-> "",
         fields |-> ("status" :> "status" @@ "id" :> "id" @@ "start-time" :> "startTime"
             @@ "kind" :> "kind"),
         headers |-> <<>>]
    @@ "format_export_policy" :>
        [guard |-> TRUE, mode |-> "single", nodata |-> "No data to show.",
         key |-> "f5.ExportPolicy(val.uid && val.uid == obj.uid)",
         title |-> "f5 data for exporting policy:", date |-> "",
         fields |-> ("status" :> "status" @@ "id" :> "id" @@ "start-time" :> "startTime"
             @@ "kind" :> "kind" @@ "format" :> "format" @@ "filename" :> "filename"),
         headers |-> <<>>]
    @@ "format_delete_policy" :>
        [guard |-> TRUE, mode |-> "single", nodata |-> "No data to show.",
         key |-> "f5.delete-policy(val.uid && val.uid == obj.uid)",
         title |-> "f5 data for deleting policy:", date |-> "",
         fields |-> ("name" :> "name" @@ "id" :> "id" @@ "self-link" :> "selfLink"),
         headers |-> <<"name", "id", "self-link">>]
    @@ "format_list_policy_methods" :>
        [guard |-> TRUE, mode |-> "rebind", nodata |-> "No data to show.",
         key |-> "f5.PolicyMethods(val.uid && val.uid == obj.uid)",
         title |-> "f5 data for listing all policy methods:", date |-> "last-updated",
         fields |-> ("name" :> "name" @@ "act-as-method" :> "actAsMethod" @@ "id" :> "id"
             @@ "self-link" :> "selfLink" @@ "kind" :> "kind"),
         headers |-> <<"name", "act-as-method", "id", "self-link", "kind",
             "last-updated">>]
    @@ "format_list_policy_file_type" :>
        [guard |-> TRUE, mode |-> "rebind", nodata |-> "No data to show.",
         key |-> "f5.FileTypes(val.uid && val.uid == obj.uid)",
         title |-> "Listing all f5 file type:", date |-> "last-updated",
         fields |-> ("name" :> "name" @@ "id" :> "id" @@ "self-link" :> "selfLink" @@
             "query-string-length" :> "queryStringLength" @@ "check-request-length" :>
             "checkRequestLength" @@ "kind" :> "kind" @@ "allowed" :> "allowed"),
         headers |-> <<"name", "id", "self-link", "query-string-length",
             "check-request-length", "kind", "allowed", "last-updated">>]
    @@ "format_policy_methods_command" :>
        [guard |-> TRUE, mode |-> "single", nodata |-> "No data to show.",
         key |-> "f5.PolicyMethods(val.uid && val.uid == obj.uid)",
         title |-> "f5 data for policy methods:", date |-> "",
         fields |-> ("name" :> "name" @@ "id" :> "id" @@ "act-as-method" :> "actAsMethod"
             @@ "self-link" :> "selfLink" @@ "kind" :> "kind"),
         headers |-> <<"name", "act-as-method", "id", "self-link", "kind">>]
    @@ "format_file_type_command" :>
        [guard |-> TRUE, mode |-> "single", nodata |-> "No data to show.",
         key |-> "f5.FileType(val.uid && val.uid == obj.uid)",
         title |-> "f5 data for file types:", date |-> "last-updated",
         fields |-> ("name" :> "name" @@ "id" :> "id" @@ "self-link" :> "selfLink" @@
             "query-string-length" :> "queryStringLength" @@ "check-request-length" :>
             "checkRequestLength" @@ "response-check" :> "responseCheck" @@
             "check-url-length" :> "checkUrlLength" @@ "post-data-length" :>
             "postDataLength" @@ "url-length" :> "urlLength" @@ "perform-staging" :>
             "performStaging" @@ "allowed" :> "allowed"),
         headers |-> <<"name", "id", "self-link", "query-string-length",
             "check-request-length", "response-check", "check-url-length", "url-length",
             "post-data-length", "perform-staging", "allowed", "last-updated">>]
    @@ "format_policy_hostname_command" :>
        [guard |-> TRUE, mode |-> "single", nodata |-> "Nothing to show",
         key |-> "f5.Hostname(val.uid && val.uid == obj.uid)",
         title |-> "f5 information about hosts", date |-> "last-update",
         fields |-> ("name" :> "name" @@ "id" :> "id" @@ "created-by" :> "createdBy" @@
             "self-link" :> "selfLink" @@ "include-subdomains" :> "includeSubdomains"),
         headers |-> <<"id", "name", "created-by", "include-subdomains", "kind",
             "self-link", "last-update">>]
    @@ "format_policy_hostnames_command" :>
        [guard |-> FALSE, mode |-> "entries", nodata |-> "Nothing to show",
         key |-> "f5.Hostname(val.uid && val.uid == obj.uid)",
         title |-> "f5 information about hosts", date |-> "last-update",
         fields |-> ("name" :> "name" @@ "id" :> "id" @@ "created-by" :> "createdBy" @@
             "self-link" :> "selfLink" @@ "include-subdomains" :> "includeSubdomains"),
         headers |-> <<"id", "name", "created-by", "include-subdomains", "kind",
             "self-link", "last-update">>]
    @@ "format_policy_blocking_settings_list_command" :>
        [guard |-> FALSE, mode |-> "entries", nodata |-> "Nothing to show",
         key |-> "f5.BlockingSettings(val.uid && val.uid == obj.uid)",
         title |-> "{} for selected policy", date |-> "last-update",
         fields |-> ("description" :> "description" @@ "learn" :> "learn" @@ "alarm" :>
             "alarm" @@ "block" :> "block" @@ "id" :> "id" @@ "kind" :> "kind" @@
             "enabled" :> "enabled" @@ "self-link" :> "selfLink"),
         headers |-> <<"id", "description", "enabled", "learn", "alarm", "block", "kind",
             "reference", "self-link", "section-reference", "last-update">>]
    @@ "format_policy_blocking_settings_single_command" :>
        [guard |-> FALSE, mode |-> "single", nodata |-> "",
         key |-> "f5.BlockingSettings(val.uid && val.uid == obj.uid)",
         title |-> "Modified {}", date |-> "last-update",
         fields |-> ("description" :> "description" @@ "learn" :> "learn" @@ "alarm" :>
             "alarm" @@ "block" :> "block" @@ "id" :> "id" @@ "kind" :> "kind" @@
             "enabled" :> "enabled" @@ "self-link" :> "selfLink"),
         headers |-> <<"id", "description", "enabled", "learn", "alarm", "block", "kind",
             "reference", "self-link", "section-reference", "last-update">>]
    @@ "format_list_policy_urls_command" :>
        [guard |-> FALSE, mode |-> "entries", nodata |-> "Nothing to show",
         key |-> "f5.Url(val.uid && val.uid == obj.uid)",
         title |-> "URL for selected policy", date |-> "last-update",
         fields |-> ("id" :> "id" @@ "name" :> "name" @@ "description" :> "description"
             @@ "protocol" :> "protocol" @@ "type" :> "type" @@ "method" :> "method" @@
             "is-allowed" :> "isAllowed" @@ "clickjacking-protection" :>
             "clickjackingProtection" @@ "perform-staging" :> "performStaging" @@
             "mandatory-body" :> "mandatoryBody" @@ "self-link" :> "selfLink"),
         headers |-> <<"id", "name", "description", "protocol", "type", "method",
             "is-allowed", "clickjacking-protection", "perform-staging",
             "mandatory-body", "self-link", "last-update">>]
    @@ "format_policy_url_command" :>
        [guard |-> FALSE, mode |-> "single", nodata |-> "",
         key |-> "f5.Url(val.uid && val.uid == obj.uid)",
         title |-> "URL for selected policy", date |-> "last-update",
         fields |-> ("id" :> "id" @@ "name" :> "name" @@ "description" :> "description"
             @@ "protocol" :> "protocol" @@ "type" :> "type" @@ "method" :> "method" @@
             "is-allowed" :> "isAllowed" @@ "clickjacking-protection" :>
             "clickjackingProtection" @@ "perform-staging" :> "performStaging" @@
             "mandatory-body" :> "mandatoryBody" @@ "self-link" :> "selfLink"),
         headers |-> <<"id", "name", "description", "protocol", "type", "method",
             "is-allowed", "clickjacking-protection", "perform-staging",
             "mandatory-body", "self-link", "last-update">>]
    @@ "format_list_cookies" :>
        [guard |-> TRUE, mode |-> "rebind", nodata |-> "No data to show.",
         key |-> "f5.Cookies(val.uid && val.uid == obj.uid)",
         title |-> "f5 data for policy cookies:", date |-> "",
         fields |-> ("name" :> "name" @@ "id" :> "id" @@ "self-link" :> "selfLink" @@
             "enforcement-type" :> "enforcementType" @@ "perform-staging" :>
             "performStaging" @@ "kind" :> "kind" @@ "is-base-64" :> "isBase64" @@
             "created-by" :> "createdBy"),
         headers |-> <<"name", "id", "self-link", "enforcement-type", "perform-staging",
             "kind", "is-base-64", "created-by">>]
    @@ "format_cookies_command" :>
        [guard |-> TRUE, mode |-> "single", nodata |-> "No data to show.",
         key |-> "f5.Cookies(val.uid && val.uid == obj.uid)",
         title |-> "f5 data for {} policy cookies:", date |-> "",
         fields |-> ("name" :> "name" @@ "id" :> "id" @@ "self-link" :> "selfLink" @@
             "enforcement-type" :> "enforcementType" @@ "perform-staging" :>
             "performStaging" @@ "type" :> "type" @@ "is-base-64" :> "isBase64" @@
             "created-by" :> "createdBy"),
         headers |-> <<"name", "id", "self-link", "enforcement-type", "perform-staging",
             "type", "is-base-64", "created-by">>]
    @@ "format_policy_whitelist_ips_command" :>
        [guard |-> TRUE, mode |-> "rebind", nodata |-> "No data to show.",
         key |-> "f5.WhitelistIP(val.uid && val.uid == obj.uid)",
         title |-> "f5 data for resource whitelisted IPs:", date |-> "last-update",
         fields |-> ("id" :> "id" @@ "self-link" :> "selfLink" @@ "ip-address" :>
             "ipAddress" @@ "ip-mask" :> "ipMask" @@ "description" :> "description" @@
             "block-requests" :> "blockRequests" @@ "ignore-anomalies" :>
             "ignoreAnomalies" @@ "never-log-requests" :> "neverLogRequests" @@
             "never-learn-requests" :> "neverLearnRequests" @@
             "trusted-by-policy-builder" :> "trustedByPolicyBuilder"),
         headers |-> <<"id", "ip-address", "ip-mask", "description", "block-requests",
             "ignore-anomalies", "never-log-requests", "never-learn-requests",
             "trusted-by-policy-builder", "self-link", "last-update">>]
    @@ "format_policy_whitelist_ip_command" :>
        [guard |-> TRUE, mode |-> "single", nodata |-> "No data to show.",
         key |-> "f5.WhitelistIP(val.uid && val.uid == obj.uid)",
         title |-> "f5 data for {} resource whitelisted IP:", date |-> "last-update",
         fields |-> ("id" :> "id" @@ "self-link" :> "selfLink" @@ "ip-address" :>
             "ipAddress" @@ "ip-mask" :> "ipMask" @@ "description" :> "description" @@
             "block-requests" :> "blockRequests" @@ "ignore-anomalies" :>
             "ignoreAnomalies" @@ "never-log-requests" :> "neverLogRequests" @@
             "never-learn-requests" :> "neverLearnRequests" @@
             "trusted-by-policy-builder" :> "trustedByPolicyBuilder"),
         headers |-> <<"id", "ip-address", "ip-mask", "description", "block-requests",
             "ignore-anomalies", "never-log-requests", "never-learn-requests",
             "trusted-by-policy-builder", "self-link", "last-update">>]

\* Python's truth value of a response: None, {} and [] are false
Falsy(x) ==
    \/ x = None
    \/ x \in {EmptyDict, List(<<>>)}

\* the text time.strftime(DATE_FORMAT, time.localtime(secs)) gives
TimeText(secs) == [t |-> "time", secs |-> secs]

\* int(x / 1000000): the quotient, truncated toward zero
TruncMicros(n) == IF n >= 0 THEN n \div 1000000 ELSE -((-n) \div 1000000)

\* an integer beyond the range of the other values: seconds * 10^6 + micros,
\* the seconds written in binary, most significant bit first
Wide(seconds, micros) == [t |-> "wide", seconds |-> seconds, micros |-> micros]

Million == 1000000
\* the bits of a float's significand
MantissaBits == 53

\* a binary number plus one
RECURSIVE Increment(_)
Increment(bits) ==
    IF bits = <<>> THEN <<1>>
    ELSE IF bits[Len(bits)] = 0 THEN SubSeq(bits, 1, Len(bits) - 1) \o <<1>>
    ELSE Increment(SubSeq(bits, 1, Len(bits) - 1)) \o <<0>>

\* int(x / 1000000) for a wide x: `/` gives the float nearest to the
\* quotient, which keeps MantissaBits - Len(seconds) bits of the fraction
\* micros / 10^6; it is the next whole number when the fraction is within
\* half a unit in the last place of one (a tie goes to the even neighbour,
\* the whole number), and int() then drops nothing
TruncWide(date) ==
    LET kept == MantissaBits - Len(date.seconds) IN
    IF /\ kept >= 1
       /\ kept < 30
       /\ Million - date.micros <= Million \div 2^(kept + 1)
    THEN Increment(date.seconds)
    ELSE date.seconds

format_date(date) ==
    IF date.t = "int" THEN Ok(TimeText(TruncMicros(date.v)))
    ELSE IF date.t = "wide" THEN Ok(TimeText(TruncWide(date)))
    ELSE Raise("TypeError")

Violations == <<"v", "i", "o", "l", "a", "t", "i", "o", "n", "s">>
WebServicesSecurities == <<"w", "e", "b", "-", "s", "e", "r", "v", "i", "c", "e", "s", "-", "s", "e", "c", "u", "r", "i", "t", "i", "e", "s">>
HttpProtocols == <<"h", "t", "t", "p", "-", "p", "r", "o", "t", "o", "c", "o", "l", "s">>

\* item.get(references.get(endpoint))
ReferenceOf(item, endpoint) ==
    CASE endpoint = Str(Evasions) -> Get(item, "evasionReference")
      [] endpoint = Str(Violations) -> Get(item, "violationReference")
      [] endpoint = Str(WebServicesSecurities) -> Get(item, "webServicesSecurityReference")
      [] endpoint = Str(HttpProtocols) -> Get(item, "httpProtocolReference")
      [] OTHER -> Get(item, "None")

\* the entries a formatter adds to the copied fields, beyond the date
ExtraFields(fmt, item, endpoint) ==
    LET section == Get(item, "sectionReference")
        reference == ReferenceOf(item, endpoint)
        ref == IF Falsy(reference) THEN <<>>
               ELSE "reference" :> Get(reference, "link")
    IN CASE fmt = "format_apply_policy" ->
                "policy-reference" :> Get(Get(item, "policyReference"), "link")
         [] fmt = "format_policy_blocking_settings_list_command" ->
                ref @@ "section-reference" :>
                    (IF Falsy(section) THEN None ELSE Get(section, "link"))
         [] fmt = "format_policy_blocking_settings_single_command" ->
                ref @@ (IF Falsy(section) THEN <<>>
                        ELSE "section-reference" :> Get(section, "link"))
         [] OTHER -> <<>>

\* the display fields of one response object, or the exception raised
\* while they are read
Printable(fmt, item, endpoint) ==
    LET f == formatters[fmt]
        copied == [d \in DOMAIN f.fields |-> Get(item, f.fields[d])]
        date == format_date(Get(item, "lastUpdateMicros"))
    IN IF ~IsDict(item) THEN Raise("AttributeError")
       ELSE IF fmt = "format_apply_policy" /\ ~IsDict(Get(item, "policyReference"))
       THEN Raise("AttributeError")
       ELSE IF f.date # "" /\ ~date.ok THEN date
       ELSE Ok(Dict(ExtraFields(fmt, item, endpoint)
                    @@ (IF f.date = "" THEN <<>> ELSE f.date :> date.val)
                    @@ copied))

RECURSIVE PrintableRows(_, _, _)
PrintableRows(fmt, items, endpoint) ==
    IF items = <<>> THEN Ok(<<>>)
    ELSE LET head == Printable(fmt, items[1], endpoint)
             rest == PrintableRows(fmt, Tail(items), endpoint)
         IN IF ~head.ok THEN head
            ELSE IF ~rest.ok THEN rest
            ELSE Ok(<<head.val>> \o rest.val)

\* the first element of the triple: a literal text, or the table that
\* tableToMarkdown(title, data, headers, removeNull=True) renders
Text(s) == [t |-> "text", v |-> s]
tableToMarkdown(title, data, headers) ==
    [t |-> "table", title |-> title, data |-> data, headers |-> headers]

Triple(readable_output, outputs, result) ==
    [readable_output |-> readable_output, outputs |-> outputs, result |-> result]

\* a mutant of NoData: the marker of the other family of formatters
NoDataOther(fmt, result) ==
    Ok(Triple(Text(IF formatters[fmt].nodata = "No data to show."
                   THEN "Nothing to show" ELSE "No data to show."),
              EmptyDict, result))

\* `return '<nodata>', {}, result`
NoData(fmt, result) == Ok(Triple(Text(formatters[fmt].nodata), EmptyDict, result))

\* format_export_policy adds `policy-reference` beside the resource-type key
ExportReference(fmt, result) ==
    IF fmt = "format_export_policy" /\ ~Falsy(Get(result, "policyReference"))
    THEN "policy-reference" :> Get(Get(result, "policyReference"), "link")
    ELSE <<>>

FormatSingle(fmt, result, endpoint) ==
    LET f == formatters[fmt]
        row == Printable(fmt, result, endpoint)
    IN IF ~row.ok THEN row
       ELSE Ok(Triple(tableToMarkdown(f.title, row.val, f.headers),
                      Dict(ExportReference(fmt, result) @@ f.key :> row.val),
                      result))

FormatList(fmt, result, endpoint) ==
    LET f == formatters[fmt]
        entries == Get(result, "items")
        rows == PrintableRows(fmt, entries.v, endpoint)
        raw == IF f.mode = "rebind" THEN entries ELSE result
    IN IF ~IsDict(result) THEN Raise("AttributeError")
       ELSE IF Falsy(entries) THEN NoData(fmt, raw)
       ELSE IF ~IsList(entries) THEN Raise("TypeError")
       ELSE IF ~rows.ok THEN rows
       ELSE Ok(Triple(tableToMarkdown(f.title, List(rows.val), f.headers),
                      Dict(f.key :> List(rows.val)),
                      raw))

\* the formatter named fmt applied to the primary call's response
Format(fmt, result, endpoint) ==
    LET f == formatters[fmt] IN
    IF f.guard /\ Falsy(result) THEN NoData(fmt, result)
    ELSE IF f.mode = "single" THEN FormatSingle(fmt, result, endpoint)
    ELSE FormatList(fmt, result, endpoint)

(***************************************************************************)
(* The host's inputs: the command name and the argument mapping.           *)
(***************************************************************************)
\* a command name main's table does not hold
UnknownCommand == "f5-asm-unknown"

CommandNames == DOMAIN commands \cup {"test-module", UnknownCommand}

\* the values the host may pass for a parameter; an argument value may be
\* null (None) where listed
ArgChoices(cmd, k) ==
    CASE k = "policy_name" -> {Str(P1)}
      [] k = "endpoint" -> {Str(Evasions)}
      [] k = "policy_reference_link" -> {Str(LinkA)}
      [] k \in {"self_link", "kind", "filename"} -> {Str(K2)}
      [] k = "items" -> {List(<<>>)}
      [] k = "minimal" -> {Bool(TRUE)}
      [] k = "act_as_method" -> {Str(GetLower), None}
      [] k \in {"query_string_length", "post_data_length"} -> {IntV(100), None}
      [] k \in {"check_post_data_length", "response_check", "check_request_length"} ->
            {Bool(TRUE), None}
      [] k = "perform_staging" /\ cmd \notin {"f5-asm-policy-urls-update"} ->
            {Bool(TRUE), None}
      [] k = "include_subdomains" -> {Bool(TRUE), None}
      [] k = "learn" -> {Bool(FALSE), None}
      [] k = "is_allowed" -> {Bool(FALSE)}
      [] k \in {"method", "protocol", "url_type", "block_requests", "ip_mask"} ->
            {Str(K2)}
      [] k = "description" /\ cmd # "f5-asm-policy-blocking-settings-update" ->
            {Str(K2)}
      [] k = "ip_address" /\ cmd = "f5-asm-policy-whitelist-ips-add" ->
            {Str(K1), Str(K2)}
      [] k = commands[cmd].key -> {Str(K1)}
      [] k \in {"new_method_name", "new_file_type", "new_cookie_name", "name"} ->
            {Str(K1)}
      [] OTHER -> {Bool(TRUE)}

\* the mappings that give each key of D one of its values
RECURSIVE Assignments(_, _)
Assignments(cmd, D) ==
    IF D = {} THEN {<<>>}
    ELSE LET k == CHOOSE j \in D : TRUE
         IN {(k :> v) @@ f : v \in ArgChoices(cmd, k), f \in Assignments(cmd, D \ {k})}

\* demisto.args() for a command: nothing at all, or every required
\* argument and any of the optional ones
OptionalSubsets(cmd) ==
    {S \in SUBSET DOMAIN commands[cmd].defaults :
        Cardinality(S) <= MaxOptionalArgs \/ S = DOMAIN commands[cmd].defaults}

NullCount(f) == Cardinality({k \in DOMAIN f : f[k] = None})

ArgSets(cmd) ==
    IF cmd \notin DOMAIN commands THEN {<<>>}
    ELSE {<<>>} \cup
         {f \in UNION {Assignments(cmd, commands[cmd].required \cup S) :
                            S \in OptionalSubsets(cmd)} :
            NullCount(f) <= MaxNullArgs}

(***************************************************************************)
(* The environment's answers.                                              *)
(***************************************************************************)
Token1 == <<"t", "o", "k">>
\* a response body that is not JSON: res.json() raises
NotJson == [t |-> "notjson"]

LoginBodies ==
    {Dict([token |-> Dict([token |-> Str(Token1)])]), EmptyDict, NotJson}

Response(status, body) == [status |-> status, body |-> body]

LoginOutcomes ==
    {Ok(Response(st, b)) : st \in {200, 401}, b \in LoginBodies}
    \cup {Raise("Connection Error")}

TestModuleOutcomes ==
    {Ok(Response(st, Str(K2))) : st \in {200, 302, 401, 500}}
    \cup {Raise("Connection Error")}

FullObject ==
    Dict([name |-> Str(K1), id |-> Str(I1), lastUpdateMicros |-> IntV(1999999),
          policyReference |-> Dict([link |-> Str(LinkA)]),
          sectionReference |-> Dict([link |-> Str(LinkB)]),
          evasionReference |-> Dict([link |-> Str(LinkA)])])
BareObject == Dict([name |-> Str(K1)])

PrimaryOutcomes ==
    {Ok(r) : r \in {None, EmptyDict, FullObject, BareObject, Dict([items |-> List(<<>>)]),
                    Dict([items |-> List(<<FullObject>>)]),
                    Dict([items |-> List(<<FullObject, BareObject>>)])}}
    \cup {Raise(e) : e \in TransportErrors}

(***************************************************************************)
(* login and test_module.                                                  *)
(***************************************************************************)
\* a mutant of login: the outer `token` object is returned
login_outer_token(outcome) ==
    IF ~outcome.ok THEN outcome
    ELSE LET body == outcome.val.body IN
    IF body = NotJson THEN Raise("JSONDecodeError")
    ELSE IF ~IsDict(Get(body, "token")) THEN Raise("AttributeError")
    ELSE Ok(Get(body, "token"))

\* login(): res.json().get('token').get('token'); the status is not read
login(outcome) ==
    IF ~outcome.ok THEN outcome
    ELSE LET body == outcome.val.body IN
    IF body = NotJson THEN Raise("JSONDecodeError")
    ELSE IF ~IsDict(Get(body, "token")) THEN Raise("AttributeError")
    ELSE Ok(Get(Get(body, "token"), "token"))

StatusText(status) ==
    CASE status = 200 -> "200" [] status = 302 -> "302"
      [] status = 401 -> "401" [] status = 500 -> "500"

\* a mutant of test_module: every status is reported as 'ok'
test_module_any_status(response) == <<"ok">>

\* test_module(): the text for the status of its GET
test_module(response) ==
    IF response.status = 200 THEN <<"ok">>
    ELSE IF 400 <= response.status /\ response.status < 500
    THEN <<"Invalid credentials given.\nError: ", StatusText(response.status), ": ",
           "{response.text}">>
    ELSE IF response.status >= 500
    THEN <<"Invalid credentials given.\nError: ", StatusText(response.status), ": ",
           "{response.text}">>
    ELSE <<"Error ", StatusText(response.status), ": ", "{response.text}">>

(***************************************************************************)
(* One invocation of main().                                               *)
(***************************************************************************)
VARIABLES
    pc,         \* where main is: "start", "dispatch", "policy_lookup",
                \* "sub_lookup", "primary", "done", or "crashed" when an
                \* exception left main
    command,    \* demisto.command()
    args,       \* demisto.args()
    p,          \* the operation's parameters, once the call has bound them
    token,      \* main's token
    headers,    \* the Client's headers, NoArg until the Client is built
    md5,        \* the operation's policy id
    sub_id,     \* the operation's sub-resource id
    requests,   \* the HTTP requests issued so far, in order
    exchange,   \* the last HTTP exchange: its response and what the code
                \* that received it returned
    lookups,    \* history: the status the login call met (0 before it and
                \* when the call raised), and whether each lookup's listing
                \* held the key
    reports,    \* what reached the platform, in order
    escaped     \* the exception that left main, "" if none

vars == <<pc, command, args, p, token, headers, md5, sub_id, requests,
          exchange, lookups, reports, escaped>>

Init ==
    /\ pc = "start"
    /\ command \in CommandNames
    /\ args \in ArgSets(command)
    /\ p = <<>>
    /\ token = None
    /\ headers = NoArg
    /\ md5 = None
    /\ sub_id = None
    /\ requests = <<>>
    /\ exchange = [stage |-> "none"]
    /\ lookups = [login |-> 0, policy |-> "none", sub |-> "none"]
    /\ reports = <<>>
    /\ escaped = ""

\* a request as the transport sees it
Request(via, method, base, suffix, hdrs, prms, json, auth) ==
    [via |-> via, method |-> method, base |-> base, url_suffix |-> suffix,
     headers |-> hdrs, params |-> prms, json |-> json, auth |-> auth]

ClientRequest(method, suffix, prms, json) ==
    Request("_http_request", method, "https://{server_ip}/mgmt/tm/", suffix,
            headers, prms, json, NoArg)

LoginSuffix == <<"m", "g", "m", "t", "/", "s", "h", "a", "r", "e", "d", "/", "a", "u", "t", "h", "n", "/", "l", "o", "g", "i", "n">>

LoginRequest ==
    Request("requests.post", "POST", "https://{server_ip}/", LoginSuffix, NoArg, NoArg,
            [username |-> "{username}", password |-> "{password}",
             loginProviderName |-> "tmos"],
            NoArg)

TestModuleRequest ==
    Request("requests.get", "GET", "https://{server_ip}/mgmt/tm/", SysVersion, NoArg,
            NoArg, NoArg, <<"{username}", "{password}">>)

\* the three ways something reaches the platform
Results(text) == [via |-> "demisto.results", text |-> text]
ReturnOutputs(triple) == [via |-> "return_outputs", triple |-> triple]

\* a mutant of ReturnError: the message of the exception is dropped
ReturnErrorNoMessage(cmd, message) ==
    [via |-> "return_error",
     text |-> <<"Failed to execute ", cmd, " command. Error: ", "">>]

\* return_error(f'Failed to execute {demisto.command()} command. Error: {str(e)}')
ReturnError(cmd, message) ==
    [via |-> "return_error",
     text |-> <<"Failed to execute ", cmd, " command. Error: ", message>>]

\* a mutant of ClientHeaders: the token is left out of the headers
ClientHeadersNoToken(tok) == [ContentType |-> "application/json", XF5AuthToken |-> None]

\* Client.__init__
ClientHeaders(tok) == [ContentType |-> "application/json", XF5AuthToken |-> tok]

\* a listing holds an item whose field equals the key
Holds(outcome, field, key) ==
    /\ outcome.ok
    /\ IsDict(outcome.val)
    /\ IsList(Get(outcome.val, "items"))
    /\ \E i \in DOMAIN Get(outcome.val, "items").v :
            Get(Get(outcome.val, "items").v[i], field) = key

\* what a lookup met: a listing holding the key ("hit"), a listing without it
\* ("miss"), or no listing at all ("failed")
HitOrMiss(outcome, field, key) ==
    IF Holds(outcome, field, key) THEN "hit"
    ELSE IF outcome.ok /\ IsDict(outcome.val) /\ IsList(Get(outcome.val, "items"))
         THEN "miss"
         ELSE "failed"

\* main, lines 1382-1392: the login call, outside the try block
MainLogin ==
    /\ pc = "start"
    /\ \E outcome \in LoginOutcomes :
        LET r == login(outcome) IN
        /\ requests' = Append(requests, LoginRequest)
        /\ exchange' = [stage |-> "login", response |-> outcome, result |-> r]
        /\ lookups' = [lookups EXCEPT
                          !.login = IF outcome.ok THEN outcome.val.status ELSE 0]
        /\ IF r.ok
           THEN /\ token' = r.val
                /\ pc' = "dispatch"
                /\ escaped' = escaped
           ELSE /\ token' = token
                /\ pc' = "crashed"
                /\ escaped' = r.exc
    /\ UNCHANGED <<command, args, p, headers, md5, sub_id, reports>>

\* main, lines 1397-1451 for the test-module command: the credential check
\* and its report; then the Client is built and the table holds no such
\* command
MainTestModule ==
    /\ pc = "dispatch"
    /\ command = "test-module"
    /\ \E outcome \in TestModuleOutcomes :
        /\ requests' = Append(requests, TestModuleRequest)
        /\ exchange' = [stage |-> "test-module", response |-> outcome,
                        result |-> IF outcome.ok THEN Ok(test_module(outcome.val))
                                   ELSE outcome]
        /\ IF outcome.ok
           THEN /\ reports' = Append(reports, Results(test_module(outcome.val)))
                /\ headers' = ClientHeaders(token)
           ELSE /\ reports' = Append(reports, ReturnError(command, outcome.exc))
                /\ headers' = headers
    /\ pc' = "done"
    /\ UNCHANGED <<command, args, p, token, md5, sub_id, lookups, escaped>>

\* a mutant of MainDispatch: an exception raised by the call is swallowed
MainDispatchSilent ==
    /\ pc = "dispatch"
    /\ command # "test-module"
    /\ headers' = ClientHeaders(token)
    /\ IF command \notin DOMAIN commands
       THEN /\ pc' = "done"
            /\ UNCHANGED <<p, reports>>
       ELSE LET b == Bind(command, args) IN
            IF b.ok
            THEN /\ p' = b.val
                 /\ pc' = IF commands[command].resolve THEN "policy_lookup"
                          ELSE "primary"
                 /\ reports' = reports
            ELSE /\ p' = p
                 /\ pc' = "done"
                 /\ reports' = reports
    /\ UNCHANGED <<command, args, token, md5, sub_id, requests, exchange,
                   lookups, escaped>>

\* main, lines 1401-1450: the Client is built, the command is looked up in
\* the table and its operation is called with the arguments
MainDispatch ==
    /\ pc = "dispatch"
    /\ command # "test-module"
    /\ headers' = ClientHeaders(token)
    /\ IF command \notin DOMAIN commands
       THEN /\ pc' = "done"
            /\ UNCHANGED <<p, reports>>
       ELSE LET b == Bind(command, args) IN
            IF b.ok
            THEN /\ p' = b.val
                 /\ pc' = IF commands[command].resolve THEN "policy_lookup"
                          ELSE "primary"
                 /\ reports' = reports
            ELSE /\ p' = p
                 /\ pc' = "done"
                 /\ reports' = Append(reports, ReturnError(command, b.exc))
    /\ UNCHANGED <<command, args, token, md5, sub_id, requests, exchange,
                   lookups, escaped>>

\* a mutant of PolicyLookup: an id resolved earlier is used again without a
\* new listing
PolicyLookupCached ==
    /\ pc = "policy_lookup"
    /\ IF md5 # None
       THEN /\ requests' = requests
            /\ exchange' = [stage |-> "policy", response |-> Ok(None),
                            result |-> Ok(md5)]
            /\ lookups' = [lookups EXCEPT !.policy = "hit"]
            /\ md5' = md5
            /\ pc' = IF commands[command].sub = "none" THEN "primary"
                     ELSE "sub_lookup"
            /\ reports' = reports
       ELSE \E outcome \in ListingOutcomes(PolicyItems) :
            LET r == IF outcome.ok THEN get_policy_md5(p.policy_name, outcome.val)
                     ELSE outcome
            IN
            /\ requests' = Append(requests,
                  ClientRequest("GET", AsmPolicies,
                                Dict([items |-> List(<<Dict([name |-> p.policy_name])>>)]),
                                NoArg))
            /\ exchange' = [stage |-> "policy", response |-> outcome, result |-> r]
            /\ lookups' = [lookups EXCEPT
                              !.policy = HitOrMiss(outcome, "name", p.policy_name)]
            /\ IF r.ok
               THEN /\ md5' = r.val
                    /\ pc' = IF commands[command].sub = "none" THEN "primary"
                             ELSE "sub_lookup"
                    /\ reports' = reports
               ELSE /\ md5' = md5
                    /\ pc' = "done"
                    /\ reports' = Append(reports, ReturnError(command, r.exc))
    /\ UNCHANGED <<command, args, p, token, headers, sub_id, escaped>>

\* the operation's call of get_policy_md5: its GET and the scan
PolicyLookup ==
    /\ pc = "policy_lookup"
    /\ \E outcome \in ListingOutcomes(PolicyItems) :
        LET r == IF outcome.ok THEN get_policy_md5(p.policy_name, outcome.val)
                 ELSE outcome
        IN
        /\ requests' = Append(requests,
              ClientRequest("GET", AsmPolicies,
                            Dict([items |-> List(<<Dict([name |-> p.policy_name])>>)]),
                            NoArg))
        /\ exchange' = [stage |-> "policy", response |-> outcome, result |-> r]
        /\ lookups' = [lookups EXCEPT
                          !.policy = HitOrMiss(outcome, "name", p.policy_name)]
        /\ IF r.ok
           THEN /\ md5' = r.val
                /\ pc' = IF commands[command].sub = "none" THEN "primary"
                         ELSE "sub_lookup"
                /\ reports' = reports
           ELSE /\ md5' = md5
                /\ pc' = "done"
                /\ reports' = Append(reports, ReturnError(command, r.exc))
    /\ UNCHANGED <<command, args, p, token, headers, sub_id, escaped>>

\* a mutant of SubLookup: the listing is served without a request
SubLookupUnrequested ==
    /\ pc = "sub_lookup"
    /\ LET op == commands[command]
           key == p[op.key]
       IN \E outcome \in ListingOutcomes(SubItems(MatchField(op.sub))) :
        LET r == IF ~outcome.ok THEN outcome
                 ELSE ResolveId(MatchField(op.sub), key, outcome.val)
        IN
        /\ requests' = requests
        /\ exchange' = [stage |-> "sub", response |-> outcome, result |-> r]
        /\ lookups' = [lookups EXCEPT
                          !.sub = HitOrMiss(outcome, MatchField(op.sub), key)]
        /\ IF r.ok
           THEN /\ sub_id' = r.val
                /\ pc' = "primary"
                /\ reports' = reports
           ELSE /\ sub_id' = sub_id
                /\ pc' = "done"
                /\ reports' = Append(reports, ReturnError(command, r.exc))
    /\ UNCHANGED <<command, args, p, token, headers, md5, escaped>>

\* a mutant of SubLookup: when the listing cannot be fetched the operation
\* goes on with the key in place of the id
SubLookupLenient ==
    /\ pc = "sub_lookup"
    /\ LET op == commands[command]
           key == p[op.key]
       IN \E outcome \in ListingOutcomes(SubItems(MatchField(op.sub))) :
        LET r == IF ~outcome.ok THEN Ok(key)
                 ELSE CASE op.sub = "get_id" -> get_id(key, outcome.val)
                        [] op.sub = "get_blocking_settings_id" ->
                              get_blocking_settings_id(key, outcome.val)
                        [] op.sub = "get_ip_id" -> get_ip_id(key, outcome.val)
        IN
        /\ requests' = Append(requests,
              ClientRequest("GET", lookup_suffix(command, p, md5), Dict(<<>>), NoArg))
        /\ exchange' = [stage |-> "sub", response |-> outcome, result |-> r]
        /\ lookups' = [lookups EXCEPT
                          !.sub = HitOrMiss(outcome, MatchField(op.sub), key)]
        /\ IF r.ok
           THEN /\ sub_id' = r.val
                /\ pc' = "primary"
                /\ reports' = reports
           ELSE /\ sub_id' = sub_id
                /\ pc' = "done"
                /\ reports' = Append(reports, ReturnError(command, r.exc))
    /\ UNCHANGED <<command, args, p, token, headers, md5, escaped>>

\* the operation's call of get_id, get_blocking_settings_id or get_ip_id
SubLookup ==
    /\ pc = "sub_lookup"
    /\ LET op == commands[command]
           key == p[op.key]
       IN \E outcome \in ListingOutcomes(SubItems(MatchField(op.sub))) :
        LET r == IF ~outcome.ok THEN outcome
                 ELSE CASE op.sub = "get_id" -> get_id(key, outcome.val)
                        [] op.sub = "get_blocking_settings_id" ->
                              get_blocking_settings_id(key, outcome.val)
                        [] op.sub = "get_ip_id" -> get_ip_id(key, outcome.val)
        IN
        /\ requests' = Append(requests,
              ClientRequest("GET", lookup_suffix(command, p, md5), Dict(<<>>), NoArg))
        /\ exchange' = [stage |-> "sub", response |-> outcome, result |-> r]
        /\ lookups' = [lookups EXCEPT
                          !.sub = HitOrMiss(outcome, MatchField(op.sub), key)]
        /\ IF r.ok
           THEN /\ sub_id' = r.val
                /\ pc' = "primary"
                /\ reports' = reports
           ELSE /\ sub_id' = sub_id
                /\ pc' = "done"
                /\ reports' = Append(reports, ReturnError(command, r.exc))
    /\ UNCHANGED <<command, args, p, token, headers, md5, escaped>>

\* the rest of the operation: the body is built, the primary call is made,
\* its response is formatted, and main hands the triple to return_outputs
\* or the exception to return_error
Primary ==
    /\ pc = "primary"
    /\ LET op == commands[command]
           body == json_data(command, p)
           endpoint == IF "endpoint" \in DOMAIN p THEN p.endpoint ELSE None
       IN IF ~body.ok
          THEN /\ reports' = Append(reports, ReturnError(command, body.exc))
               /\ UNCHANGED <<requests, exchange>>
          ELSE \E outcome \in PrimaryOutcomes :
               LET r == IF outcome.ok THEN Format(op.fmt, outcome.val, endpoint)
                        ELSE outcome
               IN
               /\ requests' = Append(requests,
                     ClientRequest(op.method, url_suffix(command, p, md5, sub_id),
                                   params(command, p), body.val))
               /\ exchange' = [stage |-> "primary", response |-> outcome, result |-> r]
               /\ reports' = Append(reports,
                     IF r.ok THEN ReturnOutputs(r.val) ELSE ReturnError(command, r.exc))
    /\ pc' = "done"
    /\ UNCHANGED <<command, args, p, token, headers, md5, sub_id, lookups,
                   escaped>>

Next ==
    \/ MainLogin
    \/ MainTestModule
    \/ MainDispatch
    \/ PolicyLookup
    \/ SubLookup
    \/ Primary

Spec == Init /\ [][Next]_vars

(***************************************************************************)
(* Properties of the identity resolvers.                                   *)
(***************************************************************************)
\* the items of the listing a lookup received, <<>> when it received none
ListedItems ==
    IF /\ exchange.stage \in {"policy", "sub"}
       /\ exchange.response.ok
       /\ IsDict(exchange.response.val)
       /\ IsList(Get(exchange.response.val, "items"))
    THEN Get(exchange.response.val, "items").v
    ELSE <<>>

\* the lookup received a listing: an object with a list of items
GotListing ==
    /\ exchange.stage \in {"policy", "sub"}
    /\ exchange.response.ok
    /\ IsDict(exchange.response.val)
    /\ IsList(Get(exchange.response.val, "items"))

\* the positions of the listing whose field equals the key
Matching(field, key) ==
    {i \in DOMAIN ListedItems : Get(ListedItems[i], field) = key}

\* the last position of a non-empty set of positions
Last(S) == CHOOSE i \in S : \A j \in S : j <= i

\* the link an item carries, None when it carries none
LinkOf(item) ==
    IF IsDict(Get(item, "plainTextProfileReference"))
    THEN Get(Get(item, "plainTextProfileReference"), "link")
    ELSE None

\* link reads .../policies/<id>/... where this is the first `policies/` of the
\* link and id holds no `/`
HasShape(link, id) ==
    \E i \in 1..Len(link) :
        /\ OccursAt(link, PoliciesSlash, i)
        /\ \A j \in 1..(i - 1) : ~OccursAt(link, PoliciesSlash, j)
        /\ i + Len(PoliciesSlash) + Len(id) <= Len(link)
        /\ SubSeq(link, i + Len(PoliciesSlash), i + Len(PoliciesSlash) + Len(id) - 1) = id
        /\ link[i + Len(PoliciesSlash) + Len(id)] = "/"
        /\ \A j \in DOMAIN id : id[j] # "/"

\* the policy ids the environment's links carry
PolicyIds == {IdA, IdB}

\* C1: whenever the policy listing holds no item named P (an empty listing
\* and items without a profile reference link included), get_policy_md5(P)
\* returns P unchanged and raises no error.
C1_AbsentNameReturned ==
    (/\ exchange.stage = "policy"
     /\ GotListing
     /\ Matching("name", p.policy_name) = {})
        => exchange.result = Ok(p.policy_name)

\* the listing is empty and get_policy_md5 raised
C1_EmptyListingRaises ==
    /\ exchange.stage = "policy"
    /\ GotListing
    /\ ListedItems = <<>>
    /\ ~exchange.result.ok

\* C2 as stated: whenever the listing holds an item named P whose link reads
\* .../policies/<ID>/..., get_policy_md5(P) returns <ID>.
C2_AnyNamedItemsId ==
    (exchange.stage = "policy" /\ GotListing) =>
        \A i \in Matching("name", p.policy_name) :
            \A id \in PolicyIds :
                (LinkOf(ListedItems[i]) # None /\ HasShape(LinkOf(ListedItems[i]).v, id))
                    => exchange.result = Ok(Str(id))

\* C2: whenever the last item named P in the listing carries a link reading
\* .../policies/<ID>/..., get_policy_md5(P) returns <ID>, the segment between
\* the first `policies/` of that item's link and the next `/`.
C2_LastNamedItemsId ==
    (/\ exchange.stage = "policy"
     /\ GotListing
     /\ Matching("name", p.policy_name) # {}) =>
        LET item == ListedItems[Last(Matching("name", p.policy_name))] IN
        \A id \in PolicyIds :
            (LinkOf(item) # None /\ HasShape(LinkOf(item).v, id))
                => exchange.result = Ok(Str(id))

\* the matched item's link holds `policies/` twice and the id after the
\* first one came back, while another item of the listing carries another id
C2_Witness ==
    /\ exchange.stage = "policy"
    /\ GotListing
    /\ Len(ListedItems) = 2
    /\ Matching("name", p.policy_name) = {2}
    /\ LinkOf(ListedItems[2]) = Str(LinkB)
    /\ LinkOf(ListedItems[1]) = Str(LinkA)
    /\ exchange.result = Ok(Str(IdB))

\* the field each sub-resource resolver matches, per command
SubField == MatchField(commands[command].sub)
SubKey == p[commands[command].key]

\* C3: whenever a sub-resource listing holds one or more items whose match
\* field equals the natural key, the resolver (get_id, get_blocking_settings_id
\* or get_ip_id) returns the id of the last of them in listing order.
C3_LastMatchWins ==
    (/\ exchange.stage = "sub"
     /\ GotListing
     /\ Matching(SubField, SubKey) # {}) =>
        exchange.result =
            Ok(Get(ListedItems[Last(Matching(SubField, SubKey))], "id"))

\* two items carry the key under different ids and the second one's id
\* came back
C3_Witness ==
    /\ exchange.stage = "sub"
    /\ GotListing
    /\ Matching(SubField, SubKey) = {1, 2}
    /\ Get(ListedItems[1], "id") # Get(ListedItems[2], "id")
    /\ exchange.result = Ok(Get(ListedItems[2], "id"))

\* C4: whenever a sub-resource listing (an empty one included) holds no item
\* whose match field equals the natural key, the resolver returns the natural
\* key itself and raises no error.
C4_MissReturnsKey ==
    (/\ exchange.stage = "sub"
     /\ GotListing
     /\ Matching(SubField, SubKey) = {}) =>
        /\ exchange.result = Ok(SubKey)
        /\ sub_id = SubKey

\* the listing holds items, none of them under the key, and the key came back
C4_Witness ==
    /\ exchange.stage = "sub"
    /\ GotListing
    /\ ListedItems # <<>>
    /\ Matching(SubField, SubKey) = {}
    /\ exchange.result = Ok(SubKey)

(***************************************************************************)
(* Properties of the request bodies.                                       *)
(***************************************************************************)
\* the optional fields of each update operation and the body key each is
\* sent under
UpdateFields ==
    "f5-asm-policy-methods-update" :> [act_as_method |-> "actAsMethod"]
    @@ "f5-asm-policy-file-type-update" :>
        [query_string_length |-> "queryStringLength",
         check_post_data_length |-> "checkPostDataLength",
         response_check |-> "responseCheck",
         check_request_length |-> "checkRequestLength",
         post_data_length |-> "postDataLength",
         perform_staging |-> "performStaging"]
    @@ "f5-asm-policy-hostnames-update" :> [include_subdomains |-> "includeSubdomains"]
    @@ "f5-asm-policy-cookies-update" :> [perform_staging |-> "performStaging"]
    @@ "f5-asm-policy-blocking-settings-update" :>
        [enabled |-> "enabled", learn |-> "learn", alarm |-> "alarm", block |-> "block"]
    @@ "f5-asm-policy-urls-update" :>
        [perform_staging |-> "performStaging", description |-> "description",
         mandatory_body |-> "mandatoryBody",
         clickjacking_protection |-> "clickjackingProtection",
         url_isreferrer |-> "urlIsReferrer"]
    @@ "f5-asm-policy-whitelist-ips-update" :>
        [trusted_by_builder |-> "trustedByPolicyBuilder",
         ignore_brute_detection |-> "ignoreAnomalies",
         description |-> "description", block_requests |-> "blockRequests",
         ignore_learning |-> "neverLearnRequests", never_log |-> "neverLogRequests",
         ignore_intelligence |-> "ignoreIpReputation"]

\* the requests the Client made with the given HTTP method
RequestsBy(method) ==
    {i \in DOMAIN requests :
        requests[i].via = "_http_request" /\ requests[i].method = method}

\* C5: for every update operation, the PATCH body holds a key for exactly the
\* optional fields that are not None (beside the resource's own name, where
\* the operation sends it), and no key of the body holds a null.
C5_PatchBodyHoldsNoNull ==
    \A i \in RequestsBy("PATCH") :
        LET body == requests[i].json.v
            fields == UpdateFields[command]
        IN /\ \A k \in DOMAIN body : body[k] # None
           /\ DOMAIN body \ {"name"} =
                {fields[k] : k \in {j \in DOMAIN fields : p[j] # None}}

\* a PATCH went out whose body holds includeSubdomains with a null value
C5_NullKeySent ==
    /\ command = "f5-asm-policy-hostnames-update"
    /\ \E i \in RequestsBy("PATCH") :
          requests[i].json = Dict([includeSubdomains |-> None])

\* the update operations that filter their fields (blocking settings, URLs,
\* whitelisted IPs) send exactly the fields that are not None
C5_FilteringUpdates ==
    command \in {"f5-asm-policy-blocking-settings-update", "f5-asm-policy-urls-update",
                 "f5-asm-policy-whitelist-ips-update"} =>
        \A i \in RequestsBy("PATCH") :
            LET body == requests[i].json.v
                fields == UpdateFields[command]
            IN /\ \A k \in DOMAIN body : body[k] # None
               /\ DOMAIN body = {fields[k] : k \in {j \in DOMAIN fields : p[j] # None}}

\* C6: adding a whitelisted IP with only ip_address supplied (beside the
\* policy's name) issues a POST whose body is exactly {"ipAddress": <value>}.
C6_AddIpBodyHoldsOnlyAddress ==
    (/\ command = "f5-asm-policy-whitelist-ips-add"
     /\ DOMAIN args = {"policy_name", "ip_address"}) =>
        /\ \A i \in RequestsBy("POST") :
              requests[i].json = Dict([ipAddress |-> args.ip_address])
        /\ exchange.stage = "primary" => Cardinality(RequestsBy("POST")) = 1

\* the POST of such an invocation went out
C6_Witness ==
    /\ command = "f5-asm-policy-whitelist-ips-add"
    /\ DOMAIN args = {"policy_name", "ip_address"}
    /\ args.ip_address = Str(K2)
    /\ pc = "done"
    /\ Len(requests) = 3
    /\ requests[3].method = "POST"
    /\ requests[3].json = Dict([ipAddress |-> Str(K2)])

\* the part of a path after its last `/`
FinalSegment(path) ==
    LET slashes == {i \in DOMAIN path : path[i] = "/"}
    IN IF slashes = {} THEN path
       ELSE SubSeq(path, Last(slashes) + 1, Len(path))

\* C7: deleting a hostname whose name the policy's host-names listing does
\* not hold ends in exactly one DELETE request, the last request of the
\* invocation, whose final path segment is the name as given.
C7_DeleteOfAbsentHostname ==
    (/\ command = "f5-asm-policy-hostnames-delete"
     /\ lookups.sub = "miss"
     /\ pc = "done") =>
        /\ RequestsBy("DELETE") = {Len(requests)}
        /\ FinalSegment(requests[Len(requests)].url_suffix) = p.name.v

\* the DELETE went out although the listing held other hostnames only
C7_Witness ==
    /\ command = "f5-asm-policy-hostnames-delete"
    /\ lookups.sub = "miss"
    /\ pc = "done"
    /\ requests[Len(requests)].method = "DELETE"
    /\ requests[Len(requests)].url_suffix = CollPath(md5, HostNames) \o Slash \o K1
    /\ requests[Len(requests) - 1].method = "GET"

(***************************************************************************)
(* Properties of main's reports.                                           *)
(***************************************************************************)
\* C8: listing policies when the server answers {"items": []} yields the
\* string "No data to show." as the first element of the result and an empty
\* context mapping as the second.
C8_EmptyPolicyListing ==
    (/\ command = "f5-asm-policy-list"
     /\ exchange.stage = "primary"
     /\ exchange.response = Ok(Dict([items |-> List(<<>>)]))) =>
        /\ exchange.result.ok
        /\ exchange.result.val.readable_output = Text("No data to show.")
        /\ exchange.result.val.outputs = EmptyDict
        /\ reports = <<ReturnOutputs(exchange.result.val)>>

\* the empty listing came back and its result was reported
C8_Witness ==
    /\ command = "f5-asm-policy-list"
    /\ exchange.stage = "primary"
    /\ exchange.response = Ok(Dict([items |-> List(<<>>)]))
    /\ Len(reports) = 1
    /\ reports[1].via = "return_outputs"

\* main has ended, by returning or by an exception leaving it
Ended == pc \in {"done", "crashed"}

Successes == {i \in DOMAIN reports : reports[i].via \in {"return_outputs", "demisto.results"}}
Errors == {i \in DOMAIN reports : reports[i].via = "return_error"}

\* C9 as stated: every invocation of main, whatever the command name and
\* whatever the login and transport calls do, ends with exactly one report.
C9_AlwaysOneReport == Ended => Len(reports) = 1

\* C9: an invocation whose login yields a token and whose command is
\* test-module or one of the table's commands ends with exactly one report,
\* a success or an error string; an invocation whose login fails ends with
\* the exception leaving main and no report; one whose command the table
\* does not hold ends with no report; no invocation reports more than once
\* or before its last step.
C9_OneReportWhenDispatched ==
    /\ Len(reports) <= 1
    /\ ~Ended => reports = <<>>
    /\ pc = "crashed" => reports = <<>> /\ escaped # "" /\ exchange.stage = "login"
    /\ pc = "done" /\ command \notin DOMAIN commands \cup {"test-module"} => reports = <<>>
    /\ pc = "done" /\ command \in DOMAIN commands \cup {"test-module"} =>
          /\ Len(reports) = 1
          /\ Cardinality(Successes) + Cardinality(Errors) = 1

\* a table command whose call could not bind its arguments ended with one
\* error report
C9_Witness ==
    /\ pc = "done"
    /\ command \in DOMAIN commands
    /\ args = <<>>
    /\ Len(reports) = 1
    /\ Errors = {1}
    /\ Len(requests) = 1

\* an unknown command ended with no report
C9_UnknownCommandSilent ==
    /\ pc = "done"
    /\ command = UnknownCommand
    /\ reports = <<>>

\* C10: whenever a resolver lookup, the primary call or a formatter raises
\* while a command is dispatched, main reports exactly "Failed to execute
\* {command} command. Error: {message}" through return_error, reports no
\* success, and the exception does not leave main.
C10_DispatchErrorReported ==
    (exchange.stage \in {"policy", "sub", "primary"} /\ ~exchange.result.ok) =>
        /\ pc = "done"
        /\ escaped = ""
        /\ Len(reports) = 1
        /\ reports[1].via = "return_error"
        /\ reports[1].text = <<"Failed to execute ", command, " command. Error: ",
                               exchange.result.exc>>
        /\ Successes = {}

\* a formatter raised on the primary call's response and the error was
\* reported
C10_Witness ==
    /\ exchange.stage = "primary"
    /\ exchange.response.ok
    /\ ~exchange.result.ok
    /\ pc = "done"
    /\ reports = <<[via |-> "return_error",
                    text |-> <<"Failed to execute ", command, " command. Error: ",
                               exchange.result.exc>>]>>

(***************************************************************************)
(* Properties of the login.                                                *)
(***************************************************************************)
\* the login call met a response whose status is not 2xx
LoginRefused == lookups.login # 0 /\ lookups.login \notin 200..299

\* C11: whenever the login call meets a status that is not 2xx, whatever the
\* body, the invocation ends in an initialization failure: no Client is
\* built, no request follows the login, and no success is reported.
C11_RefusedLoginEndsInvocation ==
    LoginRefused =>
        /\ pc = "crashed"
        /\ headers = NoArg
        /\ Len(requests) = 1
        /\ Successes = {}

\* the login met a 401 whose body carries a token, and the command went on
\* to report a success
C11_RefusedLoginGoesOn ==
    /\ lookups.login = 401
    /\ pc = "done"
    /\ headers = ClientHeaders(Str(Token1))
    /\ Len(requests) > 1
    /\ Successes # {}

(***************************************************************************)
(* Properties of the formatters' triples.                                  *)
(***************************************************************************)
\* the primary call returned and the formatter made a triple of its response
Formatted ==
    /\ exchange.stage = "primary"
    /\ exchange.response.ok
    /\ exchange.result.ok

\* C12: for every command and every response, the third element of the
\* triple is the primary call's response exactly as received, for list
\* commands, for single-object commands and in the no-data case.
C12_ThirdElementIsResponse ==
    Formatted => exchange.result.val.result = exchange.response.val

\* listing policies: the third element is the list under `items`, not the
\* response that holds it
C12_ItemsReturnedForResponse ==
    /\ Formatted
    /\ command = "f5-asm-policy-list"
    /\ exchange.response.val = Dict([items |-> List(<<FullObject>>)])
    /\ exchange.result.val.result = List(<<FullObject>>)

\* the formatters that keep the response (the single-object ones and the
\* list formatters of hostnames, blocking settings and URLs) return it as
\* the third element
C12_KeptByOthers ==
    (Formatted /\ formatters[commands[command].fmt].mode # "rebind") =>
        exchange.result.val.result = exchange.response.val

\* the formatter rendered a table, not a no-data marker
Rendered == Formatted /\ exchange.result.val.readable_output.t = "table"

\* C13: for every command and every response that holds data, the context
\* mapping of the triple has exactly one key, the dotted resource-type key of
\* the command's resource kind.
C13_ContextHasOneKey ==
    Rendered =>
        DOMAIN exchange.result.val.outputs.v = {formatters[commands[command].fmt].key}

\* exporting a policy: the context holds `policy-reference` beside the
\* resource-type key
C13_ExportAddsSecondKey ==
    /\ Rendered
    /\ command = "f5-asm-policy-export-file"
    /\ exchange.response.val = FullObject
    /\ DOMAIN exchange.result.val.outputs.v =
          {"f5.ExportPolicy(val.uid && val.uid == obj.uid)", "policy-reference"}

\* every formatter but format_export_policy returns a context of one key
C13_OneKeyButExport ==
    (Rendered /\ command # "f5-asm-policy-export-file") =>
        DOMAIN exchange.result.val.outputs.v = {formatters[commands[command].fmt].key}

\* the primary call's response is empty or missing: null, an empty object,
\* or, for a list command, an object without `items`
EmptyResponse ==
    /\ exchange.stage = "primary"
    /\ exchange.response.ok
    /\ \/ exchange.response.val \in {None, EmptyDict}
       \/ /\ formatters[commands[command].fmt].mode # "single"
          /\ IsDict(exchange.response.val)
          /\ "items" \notin DOMAIN exchange.response.val.v

\* the markers the formatters use for no data
NoDataMarkers == {Text("No data to show."), Text("Nothing to show")}

\* C14: for every command, an empty or missing response of the primary call
\* yields a no-data marker with an empty context, and no error.
C14_EmptyResponseIsNoData ==
    EmptyResponse =>
        /\ exchange.result.ok
        /\ exchange.result.val.readable_output \in NoDataMarkers
        /\ exchange.result.val.outputs = EmptyDict

\* adding a URL: the empty object made format_policy_url_command raise, and
\* main reported the failure
C14_EmptyResponseRaises ==
    /\ EmptyResponse
    /\ command = "f5-asm-policy-urls-add"
    /\ exchange.response.val = EmptyDict
    /\ exchange.result = Raise("TypeError")
    /\ Errors = {1}

\* the formatters that test `if not result` first yield the marker for null
\* and for the empty object
C14_GuardedFormatters ==
    (/\ EmptyResponse
     /\ formatters[commands[command].fmt].guard
     /\ exchange.response.val \in {None, EmptyDict}) =>
        /\ exchange.result.ok
        /\ exchange.result.val.readable_output \in NoDataMarkers
        /\ exchange.result.val.outputs = EmptyDict

(***************************************************************************)
(* Properties of the arguments the caller leaves out.                      *)
(***************************************************************************)
\* the optional arguments of each command that builds a body, and the body
\* key each is sent under
OptionalFields ==
    [c \in {"f5-asm-policy-blocking-settings-update", "f5-asm-policy-urls-update",
            "f5-asm-policy-whitelist-ips-update"} |-> UpdateFields[c]]
    @@ "f5-asm-policy-urls-add" :>
        [description |-> "description", is_allowed |-> "isAllowed"]
    @@ "f5-asm-policy-whitelist-ips-add" :>
        (UpdateFields["f5-asm-policy-whitelist-ips-update"] @@ [ip_mask |-> "ipMask"])

\* the requests of the Client that carry a body
WithBody == RequestsBy("POST") \cup RequestsBy("PATCH")

\* C15: for every command, an optional argument the caller did not supply
\* contributes no key to the request body; a blocking-settings update called
\* without `learn` sends no `learn` key.
C15_UnsuppliedArgumentsOmitted ==
    command \in DOMAIN OptionalFields =>
        \A i \in WithBody :
            \A k \in DOMAIN OptionalFields[command] :
                k \notin DOMAIN args =>
                    OptionalFields[command][k] \notin DOMAIN requests[i].json.v

\* a blocking-settings update called without `learn` sent "learn": true
C15_LearnSentUnasked ==
    /\ command = "f5-asm-policy-blocking-settings-update"
    /\ DOMAIN args = {"policy_name", "endpoint", "description"}
    /\ \E i \in RequestsBy("PATCH") : requests[i].json = Dict([learn |-> Bool(TRUE)])

\* the optional arguments whose default is None contribute no key when the
\* caller leaves them out
C15_NoneDefaultsOmitted ==
    command \in DOMAIN OptionalFields =>
        \A i \in WithBody :
            \A k \in DOMAIN OptionalFields[command] :
                (k \notin DOMAIN args /\ commands[command].defaults[k] = None) =>
                    OptionalFields[command][k] \notin DOMAIN requests[i].json.v

(***************************************************************************)
(* Properties of the sequence of requests.                                 *)
(***************************************************************************)
\* the requests issued after the login call
AfterLogin == {i \in DOMAIN requests : i > 1}

\* the lookups an operation makes before its primary call
LookupsOf(cmd) ==
    (IF commands[cmd].resolve THEN 1 ELSE 0)
    + (IF commands[cmd].sub # "none" THEN 1 ELSE 0)

\* the primary request of the command was issued
PrimaryIssued == exchange.stage = "primary"

\* C16 as stated: a command that reaches its primary call has issued one or
\* two requests after login.
C16_OneOrTwoRequests ==
    PrimaryIssued => Cardinality(AfterLogin) \in {1, 2}

\* C16: no invocation issues more than three requests after login; a
\* command that reaches its primary call has issued one request for the
\* policy lookup if it takes a policy name, one for the sub-resource lookup
\* if it names a sub-resource, and the primary request: one, two or three
\* in all.
C16_UpToThreeRequests ==
    /\ Cardinality(AfterLogin) <= 3
    /\ PrimaryIssued => Cardinality(AfterLogin) = LookupsOf(command) + 1
    /\ command = "test-module" => Cardinality(AfterLogin) <= 1

\* deleting a method took the policy lookup, the methods lookup and the
\* DELETE
C16_Witness ==
    /\ command = "f5-asm-policy-methods-delete"
    /\ PrimaryIssued
    /\ Cardinality(AfterLogin) = 3
    /\ requests[2].method = "GET"
    /\ requests[3].method = "GET"
    /\ requests[4].method = "DELETE"

\* the commands of main's table by verb
ListCommands ==
    {"f5-asm-policy-list", "f5-asm-policy-methods-list", "f5-asm-policy-file-type-list",
     "f5-asm-policy-cookies-list", "f5-asm-policy-hostnames-list",
     "f5-asm-policy-blocking-settings-list", "f5-asm-policy-urls-list",
     "f5-asm-policy-whitelist-ips-list"}
AddCommands ==
    {"f5-asm-policy-apply", "f5-asm-policy-export-file", "f5-asm-policy-methods-add",
     "f5-asm-policy-file-type-add", "f5-asm-policy-cookies-add",
     "f5-asm-policy-hostnames-add", "f5-asm-policy-urls-add",
     "f5-asm-policy-whitelist-ips-add"}
UpdateCommands ==
    {"f5-asm-policy-methods-update", "f5-asm-policy-file-type-update",
     "f5-asm-policy-cookies-update", "f5-asm-policy-hostnames-update",
     "f5-asm-policy-blocking-settings-update", "f5-asm-policy-urls-update",
     "f5-asm-policy-whitelist-ips-update"}
DeleteCommands ==
    {"f5-asm-policy-delete", "f5-asm-policy-methods-delete",
     "f5-asm-policy-file-type-delete", "f5-asm-policy-cookies-delete",
     "f5-asm-policy-hostnames-delete", "f5-asm-policy-urls-delete",
     "f5-asm-policy-whitelist-ips-delete"}

\* the HTTP method that goes with the verb of a command
MethodOfVerb(cmd) ==
    CASE cmd \in ListCommands -> "GET"
      [] cmd \in AddCommands -> "POST"
      [] cmd \in UpdateCommands -> "PATCH"
      [] cmd \in DeleteCommands -> "DELETE"

\* s begins with prefix
StartsWith(s, prefix) ==
    Len(prefix) <= Len(s) /\ SubSeq(s, 1, Len(prefix)) = prefix

\* C17: a resource operation that completes has issued exactly one primary
\* request, the last request of the invocation, with the method of its verb
\* (GET for list, POST for add, apply and export, PATCH for update, DELETE
\* for delete); every request between the login and it is a GET of a
\* collection without a body, and nothing follows it.
C17_OnePrimaryRequestLast ==
    /\ (pc = "done" /\ command \in DOMAIN commands /\ Successes # {}) => PrimaryIssued
    /\ PrimaryIssued =>
        /\ pc = "done"
        /\ command \in ListCommands \cup AddCommands \cup UpdateCommands \cup DeleteCommands
        /\ requests[Len(requests)].method = MethodOfVerb(command)
        /\ requests[Len(requests)].via = "_http_request"
        /\ \A i \in AfterLogin \ {Len(requests)} :
              /\ requests[i].method = "GET"
              /\ requests[i].json = NoArg
              /\ StartsWith(requests[i].url_suffix, AsmPolicies)
              /\ i = 2 => requests[i].url_suffix = AsmPolicies
              /\ i = 3 => StartsWith(requests[i].url_suffix,
                                     AsmPolicies \o Slash \o FStr(md5) \o Slash)
        /\ \A method \in {"POST", "PATCH", "DELETE"} :
              RequestsBy(method) \subseteq {Len(requests)}

\* updating a method completed: two GET lookups, then the PATCH
C17_Witness ==
    /\ command = "f5-asm-policy-methods-update"
    /\ PrimaryIssued
    /\ Successes = {1}
    /\ Len(requests) = 4
    /\ requests[2].url_suffix = AsmPolicies
    /\ requests[3].url_suffix = CollPath(md5, Methods)
    /\ requests[4].method = "PATCH"
    /\ RequestsBy("PATCH") = {4}

(***************************************************************************)
(* Properties of the session token.                                        *)
(***************************************************************************)
\* the login requests of the invocation
LoginRequests == {i \in DOMAIN requests : requests[i].via = "requests.post"}

\* C18: in every invocation exactly one login request is issued, before
\* every other request (the test-module check included), and the token it
\* returns is the one in the Client's headers, unchanged until the
\* invocation ends.
C18_OneLoginTokenKept ==
    /\ pc = "start" => requests = <<>> /\ token = None
    /\ pc # "start" => requests[1] = LoginRequest /\ LoginRequests = {1}
    /\ (exchange.stage = "login" /\ exchange.result.ok) =>
          token = Get(Get(exchange.response.val.body, "token"), "token")
    /\ pc \notin {"start", "crashed"} => token = Str(Token1)
    /\ pc = "crashed" => token = None /\ headers = NoArg /\ Len(requests) = 1
    /\ headers # NoArg => headers = [ContentType |-> "application/json",
                                     XF5AuthToken |-> Str(Token1)]

\* what holds of every step after the login: the token does not change, and
\* neither do the Client's headers once the Client is built
TokenKept ==
    pc # "start" =>
        /\ token' = token
        /\ headers # NoArg => headers' = headers

\* step by step: after the login no step changes the token or the headers
\* of a Client that is built
TokenNeverChanges == [][TokenKept]_vars

\* a test-module invocation ended: the login came first, the credential
\* check second, and the Client holds the login's token
C18_Witness ==
    /\ command = "test-module"
    /\ pc = "done"
    /\ Len(requests) = 2
    /\ requests[1] = LoginRequest
    /\ requests[2] = TestModuleRequest
    /\ token = Str(Token1)
    /\ headers = ClientHeaders(Str(Token1))

\* the headers of an authenticated request: the login token and the JSON
\* content type
TokenHeaders == [ContentType |-> "application/json", XF5AuthToken |-> token]

\* C19 as stated: every request after the login, the test-module request
\* included, carries X-F5-Auth-Token with the login token and Content-Type:
\* application/json.
C19_EveryRequestCarriesToken ==
    \A i \in AfterLogin : requests[i].headers = TokenHeaders

\* C19: every request the Client issues (the resolvers' lookups and the
\* primary calls) carries X-F5-Auth-Token with the login token and
\* Content-Type: application/json; the test-module request carries no
\* headers and authenticates with the username and password.
C19_ClientRequestsCarryToken ==
    \A i \in AfterLogin :
        /\ requests[i].via \in {"_http_request", "requests.get"}
        /\ requests[i].via = "_http_request" =>
              /\ requests[i].headers = TokenHeaders
              /\ token = Str(Token1)
              /\ requests[i].auth = NoArg
        /\ requests[i].via = "requests.get" =>
              /\ command = "test-module"
              /\ requests[i].headers = NoArg
              /\ requests[i].auth = <<"{username}", "{password}">>

\* a lookup and a primary call went out, both with the token
C19_Witness ==
    /\ command = "f5-asm-policy-methods-list"
    /\ Len(requests) = 3
    /\ requests[2].headers = [ContentType |-> "application/json",
                              XF5AuthToken |-> Str(Token1)]
    /\ requests[3].headers = requests[2].headers

\* the test-module request went out without the token
C19_TestModuleWithoutToken ==
    /\ command = "test-module"
    /\ Len(requests) = 2
    /\ requests[2].headers = NoArg

(***************************************************************************)
(* Properties of the paths.                                                *)
(***************************************************************************)
\* the collections of a policy, relative to asm/policies/{id}/
PolicyCollections ==
    {Methods, Filetypes, HostNames, Urls, Cookies, WhitelistIps}
    \cup {BlockingSettings \o Slash \o e :
            e \in {Evasions, Violations, WebServicesSecurities, HttpProtocols}}

\* the collections and task endpoints a request may target, for a policy id
ListedPaths(id) ==
    {AsmPolicies, AsmApplyPolicy, AsmExportPolicy}
    \cup {CollPath(id, c) : c \in PolicyCollections}

\* path is the collection, or the collection followed by one segment
TargetsCollection(path, coll) ==
    \/ path = coll
    \/ /\ StartsWith(path, coll \o Slash)
       /\ \A j \in (Len(coll) + 2)..Len(path) : path[j] # "/"

\* the requests the Client issued
ClientRequests == {i \in DOMAIN requests : requests[i].via = "_http_request"}

\* C20: every request of a resolver or an operation targets one of the
\* listed collections under asm/, optionally followed by one identifier
\* segment, and the collection a sub-resource lookup lists is the collection
\* the update or delete then targets.
C20_ListedAndSameCollection ==
    /\ \A i \in ClientRequests :
          \E coll \in ListedPaths(md5) : TargetsCollection(requests[i].url_suffix, coll)
    /\ (PrimaryIssued /\ commands[command].sub # "none") =>
          requests[4].url_suffix = requests[3].url_suffix \o Slash \o FStr(sub_id)

\* updating a cookie: the lookup listed policy-cookies, the PATCH went to
\* cookies
C20_CookieLookupElsewhere ==
    /\ command = "f5-asm-policy-cookies-update"
    /\ PrimaryIssued
    /\ requests[3].url_suffix = CollPath(md5, PolicyCookies)
    /\ requests[4].url_suffix = CollPath(md5, Cookies) \o Slash \o FStr(sub_id)

\* every command but the cookie update keeps to the listed collections and
\* looks up the collection it then targets
C20_AllButCookieUpdate ==
    command # "f5-asm-policy-cookies-update" =>
        /\ \A i \in ClientRequests :
              \E coll \in ListedPaths(md5) :
                  TargetsCollection(requests[i].url_suffix, coll)
        /\ (PrimaryIssued /\ commands[command].sub # "none") =>
              requests[4].url_suffix = requests[3].url_suffix \o Slash \o FStr(sub_id)

(***************************************************************************)
(* Several operations on one Client.  main calls one operation per Client, *)
(* but the Client's operations are plain methods: a caller may run one     *)
(* after another on the same object.  An operation's policy id and         *)
(* sub-resource id are locals of that call; when the next call starts they *)
(* are unbound, which the model renders as "whatever the earlier call left *)
(* there", so that a use before the call's own lookup would show.          *)
(***************************************************************************)
MaxOperations == 2

\* the operations run in sequence: one without a policy name, an add and
\* a delete that take one
SessionCommands ==
    {"f5-asm-policy-list", "f5-asm-policy-methods-add", "f5-asm-policy-delete"}

\* each of these operations issues one GET of asm/policies, its listing or
\* its primary call: the log holds one for every operation run so far
OperationsRun ==
    Cardinality({i \in DOMAIN requests :
                    /\ requests[i].via = "_http_request"
                    /\ requests[i].method = "GET"
                    /\ requests[i].url_suffix = AsmPolicies})

\* the required arguments of the operation, and no optional one
SessionArgs(cmd) == Assignments(cmd, commands[cmd].required)

InitSession ==
    /\ pc = "start"
    /\ command \in SessionCommands
    /\ args \in SessionArgs(command)
    /\ p = <<>>
    /\ token = None
    /\ headers = NoArg
    /\ md5 = None
    /\ sub_id = None
    /\ requests = <<>>
    /\ exchange = [stage |-> "none"]
    /\ lookups = [login |-> 0, policy |-> "none", sub |-> "none"]
    /\ reports = <<>>
    /\ escaped = ""

\* one more operation is called on the Client that main built, the caller
\* having taken what the earlier one returned: the arguments are bound to
\* the method's parameters and its body starts; the Client's attributes are
\* those __init__ set
CallOperation ==
    /\ pc = "done"
    /\ headers # NoArg
    /\ OperationsRun < MaxOperations
    /\ \E cmd \in SessionCommands : \E a \in SessionArgs(cmd) :
        /\ command' = cmd
        /\ args' = a
        /\ p' = Bind(cmd, a).val
        /\ pc' = IF commands[cmd].resolve THEN "policy_lookup" ELSE "primary"
    /\ exchange' = [stage |-> "none"]
    /\ lookups' = [lookups EXCEPT !.policy = "none", !.sub = "none"]
    /\ reports' = <<>>
    /\ UNCHANGED <<token, headers, md5, sub_id, requests, escaped>>

NextSession ==
    \/ MainLogin
    \/ MainDispatch
    \/ PolicyLookup
    \/ Primary
    \/ CallOperation

SpecSession == InitSession /\ [][NextSession]_vars

\* the request of get_policy_md5 for the operation's policy name
PolicyListing ==
    ClientRequest("GET", AsmPolicies,
                  Dict([items |-> List(<<Dict([name |-> p.policy_name])>>)]), NoArg)

\* how many requests the operation has issued since its policy lookup
SinceListing ==
    CASE exchange.stage = "policy" -> 0
      [] exchange.stage = "sub" -> 1
      [] exchange.stage = "primary" -> LookupsOf(command)
      [] OTHER -> 0

\* C21: over a sequence of operations on one Client, the Client's headers
\* stay the ones it was built with and every request carries them and the
\* same base URL; an operation that takes a policy name issues its own
\* policy listing before anything else and works with the id that listing
\* gave; and an add that reaches its primary call issues its POST with the
\* body its arguments give, whatever was posted before.
C21_OperationsLeaveClientAlone ==
    /\ headers # NoArg => headers = ClientHeaders(token)
    /\ \A i \in ClientRequests :
          /\ requests[i].headers = ClientHeaders(token)
          /\ requests[i].base = "https://{server_ip}/mgmt/tm/"
    /\ (exchange.stage \in {"policy", "sub", "primary"} /\ commands[command].resolve) =>
          /\ Len(requests) - SinceListing > 1
          /\ requests[Len(requests) - SinceListing] = PolicyListing
    /\ (exchange.stage = "policy" /\ exchange.result.ok) =>
          /\ exchange.response.ok
          /\ exchange.result = get_policy_md5(p.policy_name, exchange.response.val)
          /\ md5 = exchange.result.val
    /\ (PrimaryIssued /\ commands[command].resolve) =>
          StartsWith(requests[Len(requests)].url_suffix,
                     AsmPolicies \o Slash \o FStr(md5))
    /\ (PrimaryIssued /\ command \in AddCommands) =>
          /\ requests[Len(requests)].method = "POST"
          /\ requests[Len(requests)].json = json_data(command, p).val
          /\ requests[Len(requests)].url_suffix = url_suffix(command, p, md5, sub_id)

\* the same add was run twice on one Client: each run listed the policies,
\* the listings gave different ids, and the two POSTs carry the same body
C21_Witness ==
    /\ command = "f5-asm-policy-methods-add"
    /\ PrimaryIssued
    /\ Len(requests) = 5
    /\ requests[2] = PolicyListing
    /\ requests[4] = PolicyListing
    /\ requests[3].method = "POST"
    /\ requests[5].method = "POST"
    /\ requests[3].json = requests[5].json
    /\ requests[3].url_suffix = CollPath(Str(IdA), Methods)
    /\ requests[5].url_suffix = CollPath(Str(IdB), Methods)

(***************************************************************************)
(* Deletes of sub-resources.                                               *)
(***************************************************************************)
SubResourceDeletes == DeleteCommands \ {"f5-asm-policy-delete"}

\* the DELETE comes after both lookups have answered with a listing or a
\* key to fall back on
DeleteAfterLookups ==
    \A i \in RequestsBy("DELETE") :
        /\ i = 4
        /\ requests[2] = PolicyListing
        /\ requests[3].method = "GET"
        /\ requests[3].url_suffix = lookup_suffix(command, p, md5)
        /\ lookups.policy \in {"hit", "miss"}
        /\ lookups.sub \in {"hit", "miss"}
        /\ FinalSegment(requests[i].url_suffix) = FStr(sub_id)

\* C22: a sub-resource delete issues its DELETE only after the sub-resource
\* lookup has returned, and the DELETE carries no body, not even an empty
\* JSON object.
C22_DeleteAfterLookupWithoutBody ==
    command \in SubResourceDeletes =>
        /\ DeleteAfterLookups
        /\ \A i \in RequestsBy("DELETE") : requests[i].json = NoArg

\* deleting a method: the DELETE was given json_data={}
C22_DeleteCarriesEmptyObject ==
    /\ command = "f5-asm-policy-methods-delete"
    /\ PrimaryIssued
    /\ lookups.sub = "hit"
    /\ requests[4].method = "DELETE"
    /\ requests[4].json = EmptyDict

\* every sub-resource delete comes after its lookups, and the hostname
\* delete alone carries no body
C22_OrderedAndHostnameBare ==
    command \in SubResourceDeletes =>
        /\ DeleteAfterLookups
        /\ \A i \in RequestsBy("DELETE") :
              requests[i].json = IF command = "f5-asm-policy-hostnames-delete"
                                 THEN NoArg ELSE EmptyDict

(***************************************************************************)
(* List operations.                                                        *)
(***************************************************************************)
\* the primary call of a list operation is a GET of one of the collections,
\* with nothing after the collection's name
ListGetsCollection ==
    /\ requests[Len(requests)].method = "GET"
    /\ requests[Len(requests)].via = "_http_request"
    /\ requests[Len(requests)].url_suffix \in ListedPaths(md5)
    /\ requests[Len(requests)].url_suffix = url_suffix(command, p, md5, sub_id)

\* C23: a list operation issues its primary request as a GET on a
\* collection path, with no trailing identifier segment, and the request
\* carries no body, not even an empty JSON object.
C23_ListGetsCollectionWithoutBody ==
    (command \in ListCommands /\ PrimaryIssued) =>
        /\ ListGetsCollection
        /\ requests[Len(requests)].json = NoArg

\* listing the methods of a policy: the GET was given json_data={}
C23_ListCarriesEmptyObject ==
    /\ command = "f5-asm-policy-methods-list"
    /\ PrimaryIssued
    /\ requests[3].method = "GET"
    /\ requests[3].url_suffix = CollPath(md5, Methods)
    /\ requests[3].json = EmptyDict

\* every list operation GETs its collection; the listing of policies and of
\* a blocking-settings element carry no body, the others an empty object
C23_CollectionAndTwoBare ==
    (command \in ListCommands /\ PrimaryIssued) =>
        /\ ListGetsCollection
        /\ requests[Len(requests)].json =
              IF command \in {"f5-asm-policy-list",
                              "f5-asm-policy-blocking-settings-list"}
              THEN NoArg ELSE EmptyDict

(***************************************************************************)
(* Add operations.                                                         *)
(***************************************************************************)
\* the add operations of the sub-resources
ResourceAdds == AddCommands \ {"f5-asm-policy-apply", "f5-asm-policy-export-file"}

\* the fields of each add operation: the parameter and the body key it
\* becomes
AddFields ==
    "f5-asm-policy-methods-add" :>
        [new_method_name |-> "name", act_as_method |-> "actAsMethod"]
    @@ "f5-asm-policy-file-type-add" :>
        ([new_file_type |-> "name"] @@ UpdateFields["f5-asm-policy-file-type-update"])
    @@ "f5-asm-policy-cookies-add" :>
        [new_cookie_name |-> "name", perform_staging |-> "performStaging"]
    @@ "f5-asm-policy-hostnames-add" :>
        [name |-> "name", include_subdomains |-> "includeSubdomains"]
    @@ "f5-asm-policy-urls-add" :>
        [name |-> "name", protocol |-> "protocol", description |-> "description",
         method |-> "method", url_type |-> "type", is_allowed |-> "isAllowed"]
    @@ "f5-asm-policy-whitelist-ips-add" :>
        ([ip_address |-> "ipAddress", ip_mask |-> "ipMask"]
         @@ UpdateFields["f5-asm-policy-whitelist-ips-update"])

\* the caller's value for a field, or the default of the parameter when the
\* caller left it out
SuppliedOrDefault(k) ==
    IF k \in DOMAIN args THEN args[k] ELSE commands[command].defaults[k]

\* the value a field is sent with: the method an added method acts as is
\* sent in upper case, every other field as it is
SentValue(k) ==
    IF k = "act_as_method" /\ SuppliedOrDefault(k).t = "str"
    THEN Str(Upper(SuppliedOrDefault(k).v))
    ELSE SuppliedOrDefault(k)

\* the body holds the key of field k with the field's value
FieldSent(body, k) ==
    /\ AddFields[command][k] \in DOMAIN body
    /\ body[AddFields[command][k]] = SentValue(k)

KindCollections ==
    [methods |-> Methods] @@ ("file-type" :> Filetypes) @@ [hostnames |-> HostNames]
    @@ [cookies |-> Cookies] @@ ("blocking-settings" :> BlockingSettings)
    @@ [urls |-> Urls] @@ ("whitelist-ips" :> WhitelistIps)

Kinds == DOMAIN KindCollections

VerbMethods == [list |-> "GET", add |-> "POST", update |-> "PATCH", delete |-> "DELETE"]

Verbs == DOMAIN VerbMethods

\* the name of the command for a kind and a verb
CommandOf(kind, verb) == "f5-asm-policy-" \o kind \o "-" \o verb

\* the commands on a policy as a whole
PolicyCommands ==
    {"f5-asm-policy-list", "f5-asm-policy-apply", "f5-asm-policy-export-file",
     "f5-asm-policy-delete"}

\* the command of the pair is in the table, mapped to the operation with
\* the verb's method on the kind's collection
Mapped(kind, verb) ==
    /\ CommandOf(kind, verb) \in DOMAIN commands
    /\ commands[CommandOf(kind, verb)].method = VerbMethods[verb]
    /\ commands[CommandOf(kind, verb)].coll = KindCollections[kind]

\* a command outside the table, other than test-module, runs no operation:
\* the login is the only request and nothing is reported
OutsideTableIdle ==
    (command \notin DOMAIN commands /\ command # "test-module") =>
        /\ pc \in {"start", "dispatch", "done", "crashed"}
        /\ ClientRequests = {}
        /\ Len(requests) <= 1
        /\ reports = <<>>
        /\ p = <<>>

\* a command of the table that reaches its primary call issues it with the
\* method and on the collection the table gives
RunsMappedOperation ==
    (PrimaryIssued /\ command \notin PolicyCommands) =>
        /\ requests[Len(requests)].method = commands[command].method
        /\ StartsWith(requests[Len(requests)].url_suffix,
                      CollPath(md5, commands[command].coll))

\* the table holds the command of every pair but the add and the delete of
\* blocking settings, and besides them the commands on a policy as a whole;
\* the table is the same in every state, and is read where main starts
TableByKindAndVerb ==
    /\ \A kind \in Kinds : \A verb \in Verbs :
          IF kind = "blocking-settings" /\ verb \in {"add", "delete"}
          THEN CommandOf(kind, verb) \notin DOMAIN commands
          ELSE Mapped(kind, verb)
    /\ DOMAIN commands =
          PolicyCommands
          \cup ({CommandOf(kind, verb) : kind \in Kinds, verb \in Verbs}
                \ {CommandOf("blocking-settings", verb) : verb \in {"add", "delete"}})

MaxSecondBits == 36

\* seconds written with n bits: a one followed by zeros, or ones throughout
SecondsOf(n) == {[i \in 1..n |-> IF i = 1 THEN 1 ELSE b] : b \in {0, 1}}

\* microsecond parts: the ends of the second and its middle
MicroParts == {0, 1, 499999, 500000, 999996, 999997, 999998, 999999}

\* the values format_date is given: microseconds of the first seconds after
\* the epoch, and of instants some centuries on
DateInputs ==
    {IntV(s * Million + m) : s \in 0..2, m \in MicroParts}
    \cup {Wide(s, m) : s \in UNION {SecondsOf(n) : n \in (MaxSecondBits - 3)..MaxSecondBits},
                       m \in MicroParts}

InitDate ==
    /\ pc = "start"
    /\ command = "format_date"
    /\ args \in {[date |-> d] : d \in DateInputs}
    /\ p = <<>>
    /\ token = None
    /\ headers = NoArg
    /\ md5 = None
    /\ sub_id = None
    /\ requests = <<>>
    /\ exchange = [stage |-> "none"]
    /\ lookups = [login |-> 0, policy |-> "none", sub |-> "none"]
    /\ reports = <<>>
    /\ escaped = ""

\* format_date is called with the value
FormatDate ==
    /\ pc = "start"
    /\ command = "format_date"
    /\ exchange' = [stage |-> "format_date", result |-> format_date(args.date)]
    /\ pc' = "done"
    /\ UNCHANGED <<command, args, p, token, headers, md5, sub_id, requests,
                   lookups, reports, escaped>>

NextDate == FormatDate

SpecDate == InitDate /\ [][NextDate]_vars

\* the whole seconds of a microsecond value: floor(m / 10^6)
WholeSeconds(date) ==
    IF date.t = "int" THEN date.v \div Million ELSE date.seconds

\* C26: for every non-negative microsecond value, format_date formats the
\* instant of its whole seconds, floor(m / 10^6): the part below the second
\* never rounds the second up, and two values of one second give one text.
C26_WholeSecondsFormatted ==
    exchange.stage = "format_date" =>
        exchange.result = Ok(TimeText(WholeSeconds(args.date)))

\* 2^34 seconds and 999999 microseconds were formatted as 2^34 + 1 seconds
C26_SecondRoundedUp ==
    /\ exchange.stage = "format_date"
    /\ args.date.t = "wide"
    /\ Len(args.date.seconds) = 35
    /\ \A i \in 2..35 : args.date.seconds[i] = 0
    /\ args.date.micros = 999999
    /\ exchange.result = Ok(TimeText(Increment(args.date.seconds)))

\* below 2^34 seconds the whole seconds are formatted, whatever the
\* microsecond part
C26_WholeSecondsBelowBinade ==
    (exchange.stage = "format_date"
     /\ (args.date.t = "wide" => Len(args.date.seconds) < 35)) =>
        exchange.result = Ok(TimeText(WholeSeconds(args.date)))

(***************************************************************************)
(* The test-module command.                                                *)
(***************************************************************************)
\* the credential check has been made
Tested == exchange.stage = "test-module"

\* C27: once main has logged in, the test-module command issues exactly one
\* GET, with basic auth and without the token header; it reports 'ok'
\* exactly when the status of that GET is 200 and a failure text for every
\* other status; and it causes no request through the Client, neither a
\* lookup nor a resource call.
C27_OneCredentialCheck ==
    command = "test-module" =>
        /\ ClientRequests = {}
        /\ lookups.policy = "none" /\ lookups.sub = "none"
        /\ pc \in {"start", "dispatch", "done", "crashed"}
        /\ (pc = "done") = Tested
        /\ Len(requests) <= 2
        /\ Tested =>
              /\ requests = <<LoginRequest, TestModuleRequest>>
              /\ requests[2].method = "GET"
              /\ requests[2].via = "requests.get"
              /\ requests[2].auth = <<"{username}", "{password}">>
              /\ requests[2].headers = NoArg
              /\ Len(reports) = 1
              /\ exchange.response.ok =>
                    /\ reports[1].via = "demisto.results"
                    /\ (reports[1].text = <<"ok">>) = (exchange.response.val.status = 200)
                    /\ exchange.response.val.status # 200 =>
                          /\ Len(reports[1].text) = 4
                          /\ reports[1].text[1] \in {"Invalid credentials given.\nError: ",
                                                     "Error "}
                          /\ reports[1].text[2] = StatusText(exchange.response.val.status)

\* the GET met status 401 and reported invalid credentials; nothing went
\* through the Client
C27_Witness ==
    /\ command = "test-module"
    /\ Tested
    /\ exchange.response.ok
    /\ exchange.response.val.status = 401
    /\ Len(requests) = 2
    /\ reports[1].text[1] = "Invalid credentials given.\nError: "

(***************************************************************************)
(* The order of an update or a delete of a sub-resource.                   *)
(***************************************************************************)
\* the operations that look a sub-resource up before they act on it
SubResourceChanges == UpdateCommands \cup SubResourceDeletes

\* the path lies under the policy with the given id
UnderPolicy(path, id) == StartsWith(path, AsmPolicies \o Slash \o FStr(id) \o Slash)

\* C28: an update or a delete of a sub-resource issues its requests in the
\* order policy lookup, sub-resource lookup, primary call; the id it keeps
\* is the one its policy lookup returned, the paths of the sub-resource
\* lookup and of the primary call hold that id, and the last segment of the
\* primary call's path is the value its sub-resource lookup returned.
C28_LookupsThenPrimary ==
    command \in SubResourceChanges =>
        /\ (exchange.stage = "policy" /\ exchange.result.ok) =>
              /\ Len(requests) = 2
              /\ requests[2] = PolicyListing
              /\ md5 = exchange.result.val
        /\ exchange.stage = "sub" =>
              /\ Len(requests) = 3
              /\ requests[2] = PolicyListing
              /\ requests[3].method = "GET"
              /\ UnderPolicy(requests[3].url_suffix, md5)
              /\ exchange.result.ok => sub_id = exchange.result.val
        /\ pc = "primary" => exchange.stage = "sub" /\ exchange.result.ok
        /\ PrimaryIssued =>
              /\ Len(requests) = 4
              /\ requests[2] = PolicyListing
              /\ requests[3].method = "GET"
              /\ UnderPolicy(requests[3].url_suffix, md5)
              /\ requests[4].method \in {"PATCH", "DELETE"}
              /\ UnderPolicy(requests[4].url_suffix, md5)
              /\ FinalSegment(requests[4].url_suffix) = FStr(sub_id)
              /\ lookups.policy \in {"hit", "miss"}
              /\ lookups.sub \in {"hit", "miss"}

\* a URL was deleted: the policy listing gave the id in the second link,
\* the URL listing gave the id of the URL, and the DELETE names both
C28_Witness ==
    /\ command = "f5-asm-policy-urls-delete"
    /\ PrimaryIssued
    /\ md5 = Str(IdB)
    /\ sub_id = Str(I2)
    /\ requests[3].url_suffix = CollPath(Str(IdB), Urls)
    /\ requests[4].method = "DELETE"
    /\ requests[4].url_suffix = CollPath(Str(IdB), Urls) \o Slash \o I2

(***************************************************************************)
(* A lookup that fails in transport.                                       *)
(***************************************************************************)
\* the requests that change the remote state
Mutating == RequestsBy("POST") \cup RequestsBy("PATCH") \cup RequestsBy("DELETE")

\* the last exchange was a lookup whose request met a transport error
LookupFailedInTransport ==
    /\ exchange.stage \in {"policy", "sub"}
    /\ ~exchange.response.ok

\* C29: when the request of a lookup fails with a transport error the
\* operation ends there: the failed GET is the last request and was issued
\* once, a failed policy lookup is not followed by the sub-resource lookup,
\* no POST, PATCH or DELETE is sent, and the error is what the invocation
\* reports.
C29_FailedLookupEndsOperation ==
    /\ LookupFailedInTransport =>
          /\ pc = "done"
          /\ exchange.response.exc \in TransportErrors
          /\ Len(requests) = IF exchange.stage = "policy" THEN 2 ELSE 3
          /\ requests[Len(requests)].method = "GET"
          /\ \A i \in 1..(Len(requests) - 1) : requests[i] # requests[Len(requests)]
          /\ Mutating = {}
          /\ exchange.stage = "policy" => lookups.sub = "none"
          /\ reports = <<ReturnError(command, exchange.response.exc)>>
    /\ (lookups.policy = "failed" \/ lookups.sub = "failed") =>
          /\ pc = "done"
          /\ Mutating = {}
          /\ exchange.stage # "primary"

\* deleting a file type: the policy lookup answered, the file type lookup
\* met a connection error, and the invocation ended with three requests
C29_Witness ==
    /\ command = "f5-asm-policy-file-type-delete"
    /\ LookupFailedInTransport
    /\ exchange.stage = "sub"
    /\ exchange.response.exc = "Connection Error"
    /\ lookups.policy = "hit"
    /\ pc = "done"
    /\ Len(requests) = 3
    /\ Mutating = {}

(***************************************************************************)
(* Fields a response leaves out.                                           *)
(***************************************************************************)
\* the primary call answered with something to show: an object that is not
\* empty or, for a formatter of listings, a listing that holds items
NonEmptyResponse ==
    /\ exchange.stage = "primary"
    /\ exchange.response.ok
    /\ ~EmptyResponse
    /\ formatters[commands[command].fmt].mode # "single" =>
          Get(exchange.response.val, "items") # List(<<>>)

\* C30: for every resource kind and every non-empty response, the formatter
\* returns a triple whose first element is the table of the display fields,
\* also when an item lacks lastUpdateMicros, policyReference or
\* sectionReference; no absent field makes it fail.
C30_AbsentFieldsTolerated ==
    NonEmptyResponse =>
        /\ exchange.result.ok
        /\ exchange.result.val.readable_output.t = "table"
        /\ Successes = {1}

\* listing the methods of a policy: the second item had no
\* lastUpdateMicros, format_date(None) raised, and main reported the failure
C30_AbsentDateRaises ==
    /\ command = "f5-asm-policy-methods-list"
    /\ NonEmptyResponse
    /\ exchange.response.val = Dict([items |-> List(<<FullObject, BareObject>>)])
    /\ exchange.result = Raise("TypeError")
    /\ Errors = {1}

\* a listing whose items hold every field is formatted by every formatter
\* of listings
C30_FullItemsFormatted ==
    (/\ NonEmptyResponse
     /\ formatters[commands[command].fmt].mode # "single"
     /\ exchange.response.val = Dict([items |-> List(<<FullObject>>)])) =>
        /\ exchange.result.ok
        /\ Successes = {1}
====
